---- MODULE Spec2Model ----
(***************************************************************************)
(* Model of the HTML structural parser of leropa (src/leropa/parser).      *)
(*                                                                         *)
(* Text is a sequence of one-character strings.  An element of the DOM is  *)
(* a record; the id attribute of an element is its position in the         *)
(* document, so that two values built from two elements never compare      *)
(* equal by accident.                                                      *)
(*                                                                         *)
(*   SpecArticle : _parse_article on one article element                   *)
(*                 (_get_paragraphs scanning the children of the body).    *)
(*   Spec        : parse_html looping over the article elements of one     *)
(*                 document and resolving their containers.                *)
(***************************************************************************)
EXTENDS Integers, Sequences, FiniteSets, TLC

VARIABLES
    \* ---- _parse_article / _get_paragraphs (SpecArticle)
    apc,          \* position: "scan", "done" (Article returned), "none" (None returned)
    art_tag,      \* the article element: [body |-> BOOLEAN, children |-> Seq(Element)]
    idx,          \* number of children of the body already scanned
    paragraphs,   \* utils.py:296
    notes,        \* utils.py:297
    current_par,  \* utils.py:299, as an index into paragraphs (0 is None)
    made,         \* ids of the elements _note_from_tag has been called on
    article,      \* the value _parse_article returns
    \* ---- parse_html (Spec)
    pc,           \* position: "loop", "returned", "raised"
    doc,          \* the S_ART elements met so far, in document order
    books,        \* parse_html.py:128, in insertion order
    titles,       \* parse_html.py:129
    chapters,     \* parse_html.py:130
    parsed_articles, \* parse_html.py:125
    result,       \* the value parse_html returns
    \* ---- several parse_html calls (SpecCalls)
    calls,        \* the calls that are over: [doc, pc, result] of each, in order
    other,        \* the frame of the call of a second thread (NoThread without one)
    budget,       \* the S_ART elements the documents still have to give
    \* ---- parse_html, the version history (SpecHistory)
    hpc,          \* position: "links" (in the loop over the links), "done"
    links,        \* the <a> elements of div#istoric_fa met so far
    history,      \* parse_html.py:91
    prev_ver,     \* DocumentInfo.prev_ver, parse_html.py:231
    \* ---- _parse_note_details (SpecNote)
    npc,          \* position: "tag" (the note element is given), "text", "parsed"
    note_in,      \* the parts the note element is written with
    note_text,    \* utils.py:89, the normalized text of the note
    details,      \* utils.py:90, the fields read from the text
    \* ---- fetch_document (SpecFetch)
    files,        \* the cache directories: the text of <ver_id>.html, None without the file
    site,         \* the page the server holds for each version id
    fetches,      \* the calls that are over, in order
    \* ---- load_document_info (SpecCache)
    clock,        \* time.time(), in seconds
    _CACHE,       \* document_cache.py:20, the entry of each path
    disk,         \* the document each file holds
    instances,    \* number of DocumentInfo instances built so far
    last,         \* the last call: its path, time, cache before it and value returned
    \* ---- _ensure_section / _ensure_subsection (SpecSection)
    sections,     \* the registries of sections and subsections: the ids registered
    section_titles, \* the section registered under each dotted number
    subsections,  \* Section.subsections of each section, as ids in order
    held,         \* the sections list of the chapter, the title and the book
    seen,         \* the article elements placed so far: their section and subsection bodies
    \* ---- title and description of a new container (SpecMarkers)
    page,         \* the marker and body elements of one level, in document order
    built         \* the containers made so far: body position, title, description

avars == <<apc, art_tag, idx, paragraphs, notes, current_par, made, article>>
frame == <<pc, doc, books, titles, chapters, parsed_articles, result>>
hvars == <<frame, calls, other, budget>>
mvars == <<hpc, links, history, prev_ver>>
nvars == <<npc, note_in, note_text, details>>
fvars == <<files, site, fetches>>
cvars == <<clock, _CACHE, disk, instances, last>>
svars == <<sections, section_titles, subsections, held, seen>>
kvars == <<page, built>>
xvars == <<mvars, nvars, fvars, cvars, svars, kvars>>
vars == <<avars, hvars, xvars>>

\* Python's None, where the other values are sequences.
None == <<"None">>

\* ------------------------------------------------------------------ bounds
MaxChildren == 3
MaxArticles == 3
MaxCalls == 3
MaxCallArticles == 1
MaxLinks == 2
MaxFetches == 3
MaxClock == 1800
MaxPlaced == 3
MaxElements == 3

\* ------------------------------------------------------------------- text
Whitespace == {" "}
Punctuation == {",", ".", ";", ":", "!", "?", ")"}
Digit == {"0", "1", "2", "3", "4", "5", "6", "7", "8", "9"}
Lower == {"a", "b", "c", "d", "e", "f", "g", "h", "i", "j", "k", "l", "m",
          "n", "o", "p", "q", "r", "s", "t", "u", "v", "w", "x", "y", "z"}

\* The elements of s at the indices where keep is TRUE, in order.
SelectIdx(s, keep) ==
    LET at == SelectSeq([i \in 1..Len(s) |-> i], LAMBDA i : keep[i])
    IN [k \in 1..Len(at) |-> s[at[k]]]

\* str.strip()
Strip(s) ==
    LET ink == {i \in 1..Len(s) : s[i] \notin Whitespace}
    IN IF ink = {} THEN <<>>
       ELSE LET lo == CHOOSE i \in ink : \A j \in ink : i <= j
                hi == CHOOSE i \in ink : \A j \in ink : j <= i
            IN SubSeq(s, lo, hi)

\* str.lstrip()
LStrip(s) ==
    LET ink == {i \in 1..Len(s) : s[i] \notin Whitespace}
    IN IF ink = {} THEN <<>>
       ELSE SubSeq(s, CHOOSE i \in ink : \A j \in ink : i <= j, Len(s))

\* re.sub(r"\s+", " ", text).strip()
CollapseWhitespace(s) ==
    LET keep == [i \in 1..Len(s) |->
                    \/ s[i] \notin Whitespace
                    \/ /\ i > 1
                       /\ s[i - 1] \notin Whitespace
                       /\ \E j \in (i + 1)..Len(s) : s[j] \notin Whitespace]
        one == [i \in 1..Len(s) |-> IF s[i] \in Whitespace THEN " " ELSE s[i]]
    IN SelectIdx(one, keep)

\* re.sub(r"\s+([,.;:!?\)])", r"\1", cleaned)
TidyPunctuation(s) ==
    LET run(i) == CHOOSE j \in i..(Len(s) + 1) :
                      /\ \A k \in i..(j - 1) : s[k] \in Whitespace
                      /\ (j = Len(s) + 1 \/ s[j] \notin Whitespace)
        keep == [i \in 1..Len(s) |->
                    ~(/\ s[i] \in Whitespace
                      /\ run(i) <= Len(s)
                      /\ s[run(i)] \in Punctuation)]
    IN SelectIdx(s, keep)

_normalize_whitespace(text) == TidyPunctuation(CollapseWhitespace(text))

\* " ".join(parts)
RECURSIVE JoinSpace(_)
JoinSpace(parts) ==
    IF parts = <<>> THEN <<>>
    ELSE IF Len(parts) = 1 THEN parts[1]
    ELSE parts[1] \o <<" ">> \o JoinSpace(Tail(parts))

\* Length of the match of ^\([0-9]+\) at the start of s, 0 when there is none.
MatchNumeric(s) ==
    IF Len(s) >= 3 /\ s[1] = "("
    THEN LET ends == {j \in 3..Len(s) :
                         /\ s[j] = ")"
                         /\ \A k \in 2..(j - 1) : s[k] \in Digit}
         IN IF ends = {} THEN 0 ELSE CHOOSE j \in ends : TRUE
    ELSE 0

\* MatchLabel with the lettered form left out.
MatchLabel_numeric_only(s) == MatchNumeric(s)

\* Length of the match of ^(\([0-9]+\)|[a-z]\)) at the start of s, 0 when none.
MatchLabel(s) ==
    IF MatchNumeric(s) > 0 THEN MatchNumeric(s)
    ELSE IF Len(s) >= 2 /\ s[1] \in Lower /\ s[2] = ")" THEN 2
    ELSE 0

\* re.match(r"^\([0-9]+\)$", label)
IsNumericLabel(label) ==
    label # None /\ Len(label) > 0 /\ MatchNumeric(label) = Len(label)

\* -------------------------------------------------------------------- DOM
\* A node inside a child of the article body: a text node, a nested note
\* (span S_PAR), a nested list item (span S_LIT or S_LIN, with its _TTL and
\* _BDY sub-elements) or a hidden ellipsis placeholder (span S_LIT_SHORT).
\* inner holds the spans that lie inside the _BDY of a nested list item,
\* after its text.
Txt(s) == [t |-> "text", ttl |-> None, s |-> s, inner |-> <<>>]
NoteSpan(s) == [t |-> "S_PAR", ttl |-> None, s |-> s, inner |-> <<>>]
ItemSpanWith(cls, ttl, s, inner) == [t |-> cls, ttl |-> ttl, s |-> s, inner |-> inner]
ItemSpan(cls, ttl, s) == ItemSpanWith(cls, ttl, s, <<>>)
ShortSpan == [t |-> "S_LIT_SHORT", ttl |-> None, s |-> <<".", ".", ".">>, inner |-> <<>>]

\* A child span of the article body.  ttl is the text of its _TTL
\* sub-element (None when it has none); with bdy the nodes lie inside its
\* _BDY sub-element, without it they are direct children of the span.
El(cls, ttl, bdy, nodes) == [cls |-> cls, ttl |-> ttl, bdy |-> bdy, nodes |-> nodes]

ShortClasses == {"S_LIT_SHORT", "S_LIN_SHORT"}
ListItemClasses == {"S_LIN", "S_LIT"}

\* The text nodes below a node, in document order.
InnerStrings(n) == [k \in 1..Len(n.inner) |-> n.inner[k].s]
NodeStrings(n) ==
    (IF n.ttl # None THEN <<n.ttl, n.s>> ELSE <<n.s>>) \o InnerStrings(n)

RECURSIVE NodesStrings(_)
NodesStrings(nodes) ==
    IF nodes = <<>> THEN <<>>
    ELSE NodeStrings(Head(nodes)) \o NodesStrings(Tail(nodes))

\* The text nodes below a child span, in document order.
TagStrings(tag) ==
    (IF tag.ttl # None THEN <<tag.ttl>> ELSE <<>>) \o NodesStrings(tag.nodes)

\* get_text(" ", strip=True) over the given text nodes.
get_text(strings) ==
    LET stripped == [i \in 1..Len(strings) |-> Strip(strings[i])]
        NonEmpty(x) == x # <<>>
    IN JoinSpace(SelectSeq(stripped, NonEmpty))

\* The nodes of the given classes, in document order (find_all).
find_all(nodes, classes) ==
    LET In(n) == n.t \in classes IN SelectSeq(nodes, In)

\* The nodes left once those of the given classes are extracted.
extract(nodes, classes) ==
    LET Out(n) == n.t \notin classes IN SelectSeq(nodes, Out)

\* ------------------------------------------------------------ note parsing
Note(note_id, text) == [note_id |-> note_id, text |-> text]

_note_from_tag(tag) ==
    Note(tag.id, _normalize_whitespace(get_text(NodeStrings(tag))))

\* The S_NTA_TTL sub-element is extracted before the text is read.
_extract_article_note(tag) ==
    Note(tag.id, _normalize_whitespace(get_text(NodesStrings(tag.nodes))))

\* ------------------------------------------------- paragraphs and sub-items
SubParagraph(sub_id, label, text) ==
    [sub_id |-> sub_id, label |-> label, text |-> text]

Paragraph(par_id, text, label, nts) ==
    [par_id |-> par_id, text |-> text, label |-> label,
     subparagraphs |-> <<>>, notes |-> nts]

\* _subparagraph_from_tag reading the text of the whole item.
_subparagraph_from_tag_whole(tag) ==
    SubParagraph(tag.id,
                 IF tag.ttl # None THEN Strip(tag.ttl) ELSE <<>>,
                 _normalize_whitespace(get_text(NodeStrings(tag))))

_subparagraph_from_tag(tag) ==
    SubParagraph(tag.id,
                 IF tag.ttl # None THEN Strip(tag.ttl) ELSE <<>>,
                 _normalize_whitespace(get_text(<<tag.s>> \o InnerStrings(tag))))

\* The Note values of a sequence of note spans.
NotesOf(spans) == [i \in 1..Len(spans) |-> _note_from_tag(spans[i])]

\* Returns the paragraph and the list items taken out of the element.
_parse_paragraph_tag(tag) ==
    LET list_items == find_all(tag.nodes, ListItemClasses)
        rest == extract(tag.nodes, ListItemClasses)
        found == IF tag.cls = "S_ALN" /\ ~tag.bdy THEN <<>>
                 ELSE find_all(rest, {"S_PAR"})
        kept == IF tag.cls = "S_ALN" /\ ~tag.bdy THEN rest
                ELSE extract(rest, {"S_PAR"})
        text == IF tag.cls = "S_ALN" /\ ~tag.bdy
                THEN _normalize_whitespace(
                         get_text(TagStrings([tag EXCEPT !.nodes = kept])))
                ELSE _normalize_whitespace(get_text(NodesStrings(kept)))
        label == IF tag.cls = "S_ALN" /\ tag.ttl # None
                 THEN Strip(tag.ttl) ELSE None
    IN [paragraph |-> Paragraph(tag.id, text, label, NotesOf(found)),
        list_items |-> list_items,
        made |-> {found[i].id : i \in 1..Len(found)}]

\* AppendSub putting the sub-paragraph first.
AppendSub_first(pars, cur, sub) ==
    [pars EXCEPT ![cur].subparagraphs = <<sub>> \o @]

\* current_par.subparagraphs.append(sub)
AppendSub(pars, cur, sub) ==
    [pars EXCEPT ![cur].subparagraphs = Append(@, sub)]

\* StartsParagraph asking for a numeric label on the current paragraph.
StartsParagraph_numeric_current(label, cur, pars) ==
    IsNumericLabel(label) /\ (cur = 0 \/ IsNumericLabel(pars[cur].label))

\* Whether a lettered item with this label starts a new paragraph.
StartsParagraph(label, cur, pars) ==
    IsNumericLabel(label) /\ (cur = 0 \/ pars[cur].label # None)

\* Returns the paragraph list and the index of the paragraph that is current
\* after the element.
_parse_lettered_span(tag, cur, pars) ==
    LET found == IF tag.bdy THEN find_all(tag.nodes, {"S_PAR"}) ELSE <<>>
        notes_in_par == NotesOf(found)
        raw == IF tag.bdy
               THEN _normalize_whitespace(
                        get_text(NodesStrings(extract(tag.nodes, {"S_PAR"}))))
               ELSE _normalize_whitespace(get_text(TagStrings(tag)))
        explicit == IF tag.ttl # None THEN Strip(tag.ttl) ELSE <<>>
        m == IF explicit = <<>> THEN MatchLabel(raw) ELSE 0
        label == IF m > 0 THEN SubSeq(raw, 1, m) ELSE explicit
        text == IF m > 0 THEN LStrip(SubSeq(raw, m + 1, Len(raw))) ELSE raw
        made_ == {found[i].id : i \in 1..Len(found)}
    IN IF StartsParagraph(label, cur, pars)
       THEN [paragraphs |-> Append(pars, Paragraph(tag.id, text, label, notes_in_par)),
             current_par |-> Len(pars) + 1, made |-> made_]
       ELSE IF cur # 0
       THEN [paragraphs |-> AppendSub(pars, cur, SubParagraph(tag.id, label, text)),
             current_par |-> cur, made |-> made_]
       ELSE [paragraphs |-> Append(pars, Paragraph(tag.id, text, None, notes_in_par)),
             current_par |-> Len(pars) + 1, made |-> made_]

\* The notes inside a standalone S_ALN_BDY are extracted and not parsed.
_parse_aln_body(tag) ==
    LET raw == _normalize_whitespace(
                   get_text(NodesStrings(extract(tag.nodes, {"S_PAR"}))))
        m == MatchNumeric(raw)
    IN Paragraph(tag.id,
                 IF m > 0 THEN LStrip(SubSeq(raw, m + 1, Len(raw))) ELSE raw,
                 IF m > 0 THEN SubSeq(raw, 1, m) ELSE None,
                 <<>>)

\* SubPart without the label.
SubPart_no_label(sub) == Strip(sub.text)

\* parts of one sub-paragraph: f"{label}{sub.text}".strip()
SubPart(sub) ==
    Strip((IF sub.label # <<>> THEN sub.label \o <<" ">> ELSE <<>>) \o sub.text)

\* parts of one paragraph
ParParts(par) ==
    (IF par.label # None /\ par.label # <<>> THEN <<par.label>> ELSE <<>>)
        \o <<par.text>>
        \o [i \in 1..Len(par.subparagraphs) |-> SubPart(par.subparagraphs[i])]

RECURSIVE AllParts(_)
AllParts(pars) ==
    IF pars = <<>> THEN <<>> ELSE ParParts(Head(pars)) \o AllParts(Tail(pars))

_full_text_from_paragraphs(pars) ==
    _normalize_whitespace(JoinSpace(AllParts(pars)))

Article(article_id, full_text, pars, nts) ==
    [article_id |-> article_id, full_text |-> full_text,
     paragraphs |-> pars, notes |-> nts]

\* ------------------------------------------------------------------ inputs
\* The child spans an article body is built from.
E_NTA == El("S_NTA", <<"N">>, FALSE, <<Txt(<<"m">>)>>)
E_PAR == El("S_PAR", None, FALSE, <<Txt(<<"x">>)>>)
E_PAR_note == El("S_PAR", None, FALSE, <<Txt(<<"x", " ">>), NoteSpan(<<"n">>)>>)
E_PAR_items ==
    El("S_PAR", None, FALSE,
       <<Txt(<<"x", ":">>), ItemSpan("S_LIT", <<"a", ")">>, <<"y">>),
         ItemSpan("S_LIN", <<"-", " ">>, <<" ", "z">>)>>)
E_ALN_1 == El("S_ALN", <<"(", "1", ")">>, TRUE, <<Txt(<<"x">>)>>)
E_ALN_empty == El("S_ALN", <<>>, TRUE, <<Txt(<<"x">>), NoteSpan(<<"n">>)>>)
E_ALN_bare == El("S_ALN", None, FALSE, <<Txt(<<"x">>)>>)
E_LIT_a == El("S_LIT", <<"a", ")">>, TRUE, <<Txt(<<"y">>)>>)
E_LIT_2 == El("S_LIT", <<"(", "2", ")">>, TRUE, <<Txt(<<"y">>)>>)
E_LIT_rec2 ==
    El("S_LIT", None, TRUE, <<Txt(<<" ", "(", "2", " ", ")", " ", " ", "y">>)>>)
E_LIT_recb ==
    El("S_LIT", <<>>, TRUE, <<Txt(<<"b", ")", " ", "y">>), NoteSpan(<<"n">>)>>)
E_LIT_plain == El("S_LIT", None, TRUE, <<Txt(<<"y">>)>>)
E_LIT_keep == El("S_LIT", <<"a", ")">>, TRUE, <<Txt(<<"(", "2", ")", " ", "y">>)>>)
E_LIT_whole == El("S_LIT", None, FALSE, <<ShortSpan, Txt(<<"(", "2", ")", "y">>)>>)
E_LIT_miss == El("S_LIT", None, TRUE, <<Txt(<<"(", "a", ")", " ", "y">>)>>)
E_BDY_3 ==
    El("S_ALN_BDY", None, FALSE, <<Txt(<<"(", "3", ")", " ", "x">>), NoteSpan(<<"n">>)>>)
E_BDY == El("S_ALN_BDY", None, FALSE, <<Txt(<<"x">>)>>)
E_OTHER == El("S_TAB", None, FALSE, <<Txt(<<"q">>)>>)
\* A numbered wrapper without S_ALN_BDY that holds a note.
E_ALN_bare_note == El("S_ALN", None, FALSE, <<Txt(<<"x">>), NoteSpan(<<"n">>)>>)
\* A paragraph whose nested list item holds a note and an ellipsis
\* placeholder inside its body.
E_PAR_deep ==
    El("S_PAR", None, FALSE,
       <<Txt(<<"x">>),
         ItemSpanWith("S_LIT", <<"a", ")">>, <<"y">>,
                      <<[t |-> "S_LIT_SHORT", s |-> <<".", ".", ".">>],
                        [t |-> "S_PAR", s |-> <<"n">>]>>)>>)

Elements ==
    {E_NTA, E_PAR, E_PAR_note, E_PAR_items, E_ALN_1, E_ALN_empty, E_ALN_bare,
     E_LIT_a, E_LIT_2, E_LIT_rec2, E_LIT_recb, E_LIT_plain, E_LIT_keep,
     E_LIT_whole, E_LIT_miss, E_BDY_3, E_BDY, E_OTHER, E_ALN_bare_note,
     E_PAR_deep}

\* The id attributes: <<i>> for the i-th child, <<i, j>> for its j-th node,
\* <<i, j, k>> for the k-th span inside that node.
WithId(el, i) ==
    [cls |-> el.cls, ttl |-> el.ttl, bdy |-> el.bdy, id |-> <<i>>,
     nodes |-> [j \in 1..Len(el.nodes) |->
                   [t |-> el.nodes[j].t, ttl |-> el.nodes[j].ttl,
                    s |-> el.nodes[j].s, id |-> <<i, j>>,
                    inner |-> [k \in 1..Len(el.nodes[j].inner) |->
                                  [t |-> el.nodes[j].inner[k].t,
                                   s |-> el.nodes[j].inner[k].s,
                                   id |-> <<i, j, k>>]]]]]

\* ---------------------------------------------------------- _parse_article
\* RemoveShort leaving the placeholders in.
RemoveShort_none(tag) == tag

\* for short in body_tag.find_all(...): short.decompose(), as it shows on
\* one child of the body.
RemoveShort(tag) ==
    LET kept == extract(tag.nodes, ShortClasses)
    IN [tag EXCEPT !.nodes = [j \in 1..Len(kept) |->
                                 [kept[j] EXCEPT !.inner = extract(@, ShortClasses)]]]

\* The article element, with the children of its body met so far.
InitArticle ==
    /\ apc = "start"
    /\ art_tag \in {[body |-> b, children |-> <<>>] : b \in BOOLEAN}
    /\ idx = 0
    /\ paragraphs = <<>>
    /\ notes = <<>>
    /\ current_par = 0
    /\ made = {}
    /\ article = None

\* body_tag is None: return None
ReturnNone ==
    /\ apc = "start"
    /\ ~art_tag.body
    /\ apc' = "none"
    /\ UNCHANGED <<art_tag, idx, paragraphs, notes, current_par, made, article>>
    /\ UNCHANGED <<hvars, xvars>>

\* The body is found and _get_paragraphs is entered.
EnterBody ==
    /\ apc = "start"
    /\ art_tag.body
    /\ apc' = "scan"
    /\ UNCHANGED <<art_tag, idx, paragraphs, notes, current_par, made, article>>
    /\ UNCHANGED <<hvars, xvars>>

\* The next child span of the body, as the loop of _get_paragraphs sees it.
Child(el) == RemoveShort(WithId(el, idx + 1))

Scanning(el) ==
    /\ apc = "scan"
    /\ idx < MaxChildren
    /\ art_tag' = [art_tag EXCEPT !.children = Append(@, WithId(el, idx + 1))]
    /\ idx' = idx + 1

\* ScanNote forgetting the current paragraph.
ScanNote_reset(el) ==
    /\ el.cls = "S_NTA"
    /\ Scanning(el)
    /\ LET child == Child(el) IN
        /\ notes' = Append(notes, _extract_article_note(child))
        /\ made' = made \cup {child.id}
        /\ current_par' = 0
        /\ UNCHANGED <<apc, paragraphs, article>>
        /\ UNCHANGED <<hvars, xvars>>

\* "S_NTA" in classes
ScanNote(el) ==
    /\ el.cls = "S_NTA"
    /\ Scanning(el)
    /\ LET child == Child(el) IN
        /\ notes' = Append(notes, _extract_article_note(child))
        /\ made' = made \cup {child.id}
        /\ UNCHANGED <<apc, paragraphs, current_par, article>>
        /\ UNCHANGED <<hvars, xvars>>

\* "S_PAR" in classes or "S_ALN" in classes
ScanParagraph(el) ==
    /\ el.cls \in {"S_PAR", "S_ALN"}
    /\ Scanning(el)
    /\ LET child == Child(el) IN
        /\ LET r == _parse_paragraph_tag(child)
               subs == [i \in 1..Len(r.list_items) |->
                           _subparagraph_from_tag(r.list_items[i])]
           IN /\ paragraphs' =
                     Append(paragraphs, [r.paragraph EXCEPT !.subparagraphs = subs])
              /\ made' = made \cup r.made
        /\ current_par' = Len(paragraphs) + 1
        /\ UNCHANGED <<apc, notes, article>>
        /\ UNCHANGED <<hvars, xvars>>

\* "S_LIT" in classes
ScanLettered(el) ==
    /\ el.cls = "S_LIT"
    /\ Scanning(el)
    /\ LET child == Child(el) IN
        /\ LET r == _parse_lettered_span(child, current_par, paragraphs)
           IN /\ paragraphs' = r.paragraphs
              /\ current_par' = r.current_par
              /\ made' = made \cup r.made
        /\ UNCHANGED <<apc, notes, article>>
        /\ UNCHANGED <<hvars, xvars>>

\* ScanAlnBody leaving the current paragraph where it was.
ScanAlnBody_keep(el) ==
    /\ el.cls = "S_ALN_BDY"
    /\ Scanning(el)
    /\ LET child == Child(el) IN
        /\ paragraphs' = Append(paragraphs, _parse_aln_body(child))
        /\ current_par' = current_par
        /\ UNCHANGED <<apc, notes, made, article>>
        /\ UNCHANGED <<hvars, xvars>>

\* "S_ALN_BDY" in classes
ScanAlnBody(el) ==
    /\ el.cls = "S_ALN_BDY"
    /\ Scanning(el)
    /\ LET child == Child(el) IN
        /\ paragraphs' = Append(paragraphs, _parse_aln_body(child))
        /\ current_par' = Len(paragraphs) + 1
        /\ UNCHANGED <<apc, notes, made, article>>
        /\ UNCHANGED <<hvars, xvars>>

\* Any other child is passed over.
ScanOther(el) ==
    /\ el.cls \notin {"S_NTA", "S_PAR", "S_ALN", "S_LIT", "S_ALN_BDY"}
    /\ Scanning(el)
    /\ LET child == Child(el) IN
        /\ UNCHANGED <<apc, paragraphs, notes, current_par, made, article>>
        /\ UNCHANGED <<hvars, xvars>>

\* The body has no more children: _get_paragraphs returns, the full text is
\* built and the Article returned.
ReturnArticle ==
    /\ apc = "scan"
    /\ article' = Article(<<0>>, _full_text_from_paragraphs(paragraphs),
                          paragraphs, notes)
    /\ apc' = "done"
    /\ UNCHANGED <<art_tag, idx, paragraphs, notes, current_par, made>>
    /\ UNCHANGED <<hvars, xvars>>

NextArticle ==
    \/ ReturnNone
    \/ EnterBody
    \/ \E el \in Elements : ScanNote(el)
    \/ \E el \in Elements : ScanParagraph(el)
    \/ \E el \in Elements : ScanLettered(el)
    \/ \E el \in Elements : ScanAlnBody(el)
    \/ \E el \in Elements : ScanOther(el)
    \/ ReturnArticle

\* ------------------------------------------------------------- containers
\* A container is referred to by its id; the registries hold the values.
\* Absent stands for "no enclosing element of that kind" and for None.
Absent == "-"
DEFAULT_BOOK_ID == "default_book"
DEFAULT_CHAPTER_ID == "default_chapter"

Book(book_id) ==
    [book_id |-> book_id, titles |-> <<>>, chapters |-> <<>>,
     sections |-> <<>>, articles |-> <<>>]
Title(title_id) ==
    [title_id |-> title_id, chapters |-> <<>>, sections |-> <<>>, articles |-> <<>>]
Chapter(chapter_id) ==
    [chapter_id |-> chapter_id, sections |-> <<>>, articles |-> <<>>]

\* Index of the value registered under id, 0 when there is none.
BookAt(reg, id) ==
    IF \E i \in 1..Len(reg) : reg[i].book_id = id
    THEN CHOOSE i \in 1..Len(reg) : reg[i].book_id = id ELSE 0
TitleAt(reg, id) ==
    IF \E i \in 1..Len(reg) : reg[i].title_id = id
    THEN CHOOSE i \in 1..Len(reg) : reg[i].title_id = id ELSE 0
ChapterAt(reg, id) ==
    IF \E i \in 1..Len(reg) : reg[i].chapter_id = id
    THEN CHOOSE i \in 1..Len(reg) : reg[i].chapter_id = id ELSE 0

\* all(x != id for x in lst)
NotIn(lst, id) == \A i \in 1..Len(lst) : lst[i] # id

_get_default_book(bks) ==
    IF BookAt(bks, DEFAULT_BOOK_ID) # 0 THEN bks
    ELSE Append(bks, Book(DEFAULT_BOOK_ID))

_ensure_book(tag, bks) ==
    IF tag.book = Absent THEN [books |-> bks, book |-> Absent]
    ELSE IF BookAt(bks, tag.book) # 0 THEN [books |-> bks, book |-> tag.book]
    ELSE [books |-> Append(bks, Book(tag.book)), book |-> tag.book]

\* book.titles.append(title_obj) when the title is not listed yet
AttachTitle(bks, book, title_id) ==
    IF NotIn(bks[BookAt(bks, book)].titles, title_id)
    THEN [bks EXCEPT ![BookAt(bks, book)].titles = Append(@, title_id)]
    ELSE bks

_ensure_title(tag, tls, bks, book) ==
    IF tag.title = Absent THEN [titles |-> tls, books |-> bks, title |-> Absent]
    ELSE [titles |-> IF TitleAt(tls, tag.title) = 0
                     THEN Append(tls, Title(tag.title)) ELSE tls,
          books |-> IF book # Absent THEN AttachTitle(bks, book, tag.title) ELSE bks,
          title |-> tag.title]

_ensure_chapter(tag, chs, tls, bks, title, book) ==
    IF tag.chapter = Absent
    THEN [chapters |-> chs, titles |-> tls, books |-> bks, chapter |-> Absent]
    ELSE LET id == tag.chapter
             chs2 == IF ChapterAt(chs, id) = 0 THEN Append(chs, Chapter(id)) ELSE chs
             toTitle == title # Absent /\ NotIn(tls[TitleAt(tls, title)].chapters, id)
             toBook == /\ ~toTitle
                       /\ book # Absent
                       /\ NotIn(bks[BookAt(bks, book)].chapters, id)
         IN [chapters |-> chs2,
             titles |-> IF toTitle
                        THEN [tls EXCEPT ![TitleAt(tls, title)].chapters = Append(@, id)]
                        ELSE tls,
             books |-> IF toBook
                       THEN [bks EXCEPT ![BookAt(bks, book)].chapters = Append(@, id)]
                       ELSE bks,
             chapter |-> id]

\* ----------------------------------------------------------------- parse_html
\* Positional parameters _ensure_section requires, and positional arguments
\* parse_html passes to it.
EnsureSectionParams == 6
EnsureSectionArgs == 5

BookIds == {Absent, "b1"}
TitleIds == {Absent, "t1"}
ChapterIds == {Absent, "c1", "c2"}
SectionIds == {Absent, "s1"}

\* An S_ART element: whether it has an S_ART_BDY, and the ids of its nearest
\* enclosing container bodies.
ArtTags ==
    [body : BOOLEAN, book : BookIds, title : TitleIds,
     chapter : ChapterIds, section : SectionIds]

\* The id attribute of the i-th article of the document.
ArtId(i) == <<"art", i>>

\* The variables of the other specifications, at rest.
IdleHistory ==
    /\ hpc = "idle"
    /\ links = <<>>
    /\ history = <<>>
    /\ prev_ver = None
IdleNote ==
    /\ npc = "idle"
    /\ note_in = None
    /\ note_text = None
    /\ details = None
IdleFetch ==
    /\ files = <<>>
    /\ site = <<>>
    /\ fetches = <<>>
IdleCache ==
    /\ clock = 0
    /\ _CACHE = <<>>
    /\ disk = <<>>
    /\ instances = 0
    /\ last = None
IdleSection ==
    /\ sections = {}
    /\ section_titles = {}
    /\ subsections = <<>>
    /\ held = <<>>
    /\ seen = <<>>
IdleMarkers ==
    /\ page = <<>>
    /\ built = <<>>
IdleRest == IdleFetch /\ IdleCache /\ IdleSection /\ IdleMarkers
IdleX == IdleHistory /\ IdleNote /\ IdleRest

\* The local variables of one parse_html call, and those of a call that has
\* just been entered: the registries are new dictionaries.
Frame(p, d, bks, tls, chs, arts, res) ==
    [pc |-> p, doc |-> d, books |-> bks, titles |-> tls, chapters |-> chs,
     parsed_articles |-> arts, result |-> res]
FreshFrame == Frame("loop", <<>>, <<>>, <<>>, <<>>, <<>>, None)
NoThread == Frame("absent", <<>>, <<>>, <<>>, <<>>, <<>>, None)

Init ==
    /\ pc = "loop"
    /\ doc = <<>>
    /\ books = <<>>
    /\ titles = <<>>
    /\ chapters = <<>>
    /\ parsed_articles = <<>>
    /\ result = None
    /\ calls = <<>>
    /\ other = NoThread
    /\ budget = MaxArticles
    /\ apc = "idle"
    /\ art_tag = None
    /\ idx = 0
    /\ paragraphs = <<>>
    /\ notes = <<>>
    /\ current_par = 0
    /\ made = {}
    /\ article = None
    /\ IdleX

\* The containers after lines 141-161 for an article that has a body.
Resolved(tag, bks, tls, chs) ==
    LET b == _ensure_book(tag, bks)
        t == _ensure_title(tag, tls, b.books, b.book)
        \* a title without a book goes into the placeholder book
        needB1 == t.title # Absent /\ b.book = Absent
        book1 == IF needB1 THEN DEFAULT_BOOK_ID ELSE b.book
        bks1 == IF needB1
                THEN AttachTitle(_get_default_book(t.books), DEFAULT_BOOK_ID, t.title)
                ELSE t.books
        c == _ensure_chapter(tag, chs, t.titles, bks1, t.title, book1)
        \* a chapter without book and title goes into the placeholder book
        needB2 == c.chapter # Absent /\ book1 = Absent /\ t.title = Absent
        book2 == IF needB2 THEN DEFAULT_BOOK_ID ELSE book1
        bks2 == IF needB2
                THEN LET d == _get_default_book(c.books)
                     IN IF NotIn(d[BookAt(d, DEFAULT_BOOK_ID)].chapters, c.chapter)
                        THEN [d EXCEPT ![BookAt(d, DEFAULT_BOOK_ID)].chapters =
                                           Append(@, c.chapter)]
                        ELSE d
                ELSE c.books
    IN [books |-> bks2, titles |-> c.titles, chapters |-> c.chapters,
        book |-> book2, title |-> t.title, chapter |-> c.chapter]

\* ArticleWithoutBody resolving the containers before it goes on.
ArticleWithoutBody_resolved ==
    /\ pc = "loop"
    /\ Len(doc) < MaxArticles
    /\ budget > 0
    /\ budget' = budget - 1
    /\ \E tag \in ArtTags :
          /\ ~tag.body
          /\ doc' = Append(doc, tag)
          /\ LET r == Resolved(tag, books, titles, chapters)
             IN /\ books' = r.books
                /\ titles' = r.titles
                /\ chapters' = r.chapters
    /\ UNCHANGED <<pc, parsed_articles, result>>
    /\ UNCHANGED <<calls, other>>
    /\ UNCHANGED <<avars, xvars>>

\* for art_tag in ...: _parse_article returns None: continue
ArticleWithoutBody ==
    /\ pc = "loop"
    /\ Len(doc) < MaxArticles
    /\ budget > 0
    /\ budget' = budget - 1
    /\ \E tag \in ArtTags :
          /\ ~tag.body
          /\ doc' = Append(doc, tag)
    /\ UNCHANGED <<pc, books, titles, chapters, parsed_articles, result>>
    /\ UNCHANGED <<calls, other>>
    /\ UNCHANGED <<avars, xvars>>

\* for art_tag in ...: the article is parsed, its book, title and chapter are
\* resolved, then _ensure_section is called with one positional argument too
\* few: TypeError leaves parse_html.
ArticleRaises ==
    /\ pc = "loop"
    /\ Len(doc) < MaxArticles
    /\ budget > 0
    /\ budget' = budget - 1
    /\ EnsureSectionArgs # EnsureSectionParams
    /\ \E tag \in ArtTags :
          /\ tag.body
          /\ doc' = Append(doc, tag)
          /\ LET r == Resolved(tag, books, titles, chapters)
             IN /\ books' = r.books
                /\ titles' = r.titles
                /\ chapters' = r.chapters
    /\ pc' = "raised"
    /\ UNCHANGED <<parsed_articles, result>>
    /\ UNCHANGED <<calls, other>>
    /\ UNCHANGED <<avars, xvars>>

\* The loop is over: the document is returned.
Return ==
    /\ pc = "loop"
    /\ result' = [articles |-> parsed_articles, books |-> books,
                  titles |-> titles, chapters |-> chapters]
    /\ pc' = "returned"
    /\ UNCHANGED <<doc, books, titles, chapters, parsed_articles>>
    /\ UNCHANGED <<calls, other, budget>>
    /\ UNCHANGED <<avars, xvars>>

Next ==
    \/ ArticleWithoutBody
    \/ ArticleRaises
    \/ Return

Spec == Init /\ [][Next]_vars

\* _parse_article on its own.
InitArticleOnly ==
    /\ InitArticle
    /\ pc = "idle"
    /\ doc = <<>>
    /\ books = <<>>
    /\ titles = <<>>
    /\ chapters = <<>>
    /\ parsed_articles = <<>>
    /\ result = None
    /\ calls = <<>>
    /\ other = NoThread
    /\ budget = 0
    /\ IdleX

SpecArticle == InitArticleOnly /\ [][NextArticle]_vars

\* ------------------------------------------------- several parse_html calls

\* What the caller sees of a call that is over.
Outcome(f) == [doc |-> f.doc, pc |-> f.pc, result |-> f.result]

SetFrame(f) ==
    /\ pc' = f.pc
    /\ doc' = f.doc
    /\ books' = f.books
    /\ titles' = f.titles
    /\ chapters' = f.chapters
    /\ parsed_articles' = f.parsed_articles
    /\ result' = f.result

\* NewCall keeping the registries of the call before.
NewCall_reuse ==
    /\ pc \in {"returned", "raised"}
    /\ Len(calls) < MaxCalls
    /\ calls' = Append(calls, Outcome(Frame(pc, doc, books, titles, chapters,
                                            parsed_articles, result)))
    /\ SetFrame(Frame("loop", <<>>, books, titles, chapters, <<>>, None))
    /\ UNCHANGED <<other, budget>>
    /\ UNCHANGED <<avars, xvars>>

\* The call is over and the same thread calls parse_html again.
NewCall ==
    /\ pc \in {"returned", "raised"}
    /\ Len(calls) < MaxCalls
    /\ calls' = Append(calls, Outcome(Frame(pc, doc, books, titles, chapters,
                                            parsed_articles, result)))
    /\ SetFrame(FreshFrame)
    /\ UNCHANGED <<other, budget>>
    /\ UNCHANGED <<avars, xvars>>

\* The scheduler lets the other thread run: its locals are the ones in use.
Switch ==
    /\ other.pc # "absent"
    /\ other' = Frame(pc, doc, books, titles, chapters, parsed_articles, result)
    /\ SetFrame(other)
    /\ UNCHANGED <<calls, budget>>
    /\ UNCHANGED <<avars, xvars>>

\* Two threads, each entering parse_html.
InitCalls ==
    /\ pc = "loop"
    /\ doc = <<>>
    /\ books = <<>>
    /\ titles = <<>>
    /\ chapters = <<>>
    /\ parsed_articles = <<>>
    /\ result = None
    /\ calls = <<>>
    /\ other = FreshFrame
    /\ budget = MaxCallArticles
    /\ apc = "idle"
    /\ art_tag = None
    /\ idx = 0
    /\ paragraphs = <<>>
    /\ notes = <<>>
    /\ current_par = 0
    /\ made = {}
    /\ article = None
    /\ IdleX

NextCalls ==
    \/ ArticleWithoutBody
    \/ ArticleRaises
    \/ Return
    \/ NewCall
    \/ Switch

SpecCalls == InitCalls /\ [][NextCalls]_vars

\* The variables of _parse_article and of parse_html, at rest.
IdleArticle ==
    /\ apc = "idle"
    /\ art_tag = None
    /\ idx = 0
    /\ paragraphs = <<>>
    /\ notes = <<>>
    /\ current_par = 0
    /\ made = {}
    /\ article = None
IdleHtml ==
    /\ pc = "idle"
    /\ doc = <<>>
    /\ books = <<>>
    /\ titles = <<>>
    /\ chapters = <<>>
    /\ parsed_articles = <<>>
    /\ result = None
    /\ calls = <<>>
    /\ other = NoThread
    /\ budget = 0

\* ------------------------------------------- parse_html: the version history
HistoryEntry(ver_id, date) == [ver_id |-> ver_id, date |-> date]

\* Whether s[i..j] is a run of digits that no digit follows.
DigitRun(s, i, j) ==
    /\ i <= j
    /\ \A k \in i..j : s[k] \in Digit
    /\ (j = Len(s) \/ s[j + 1] \notin Digit)

\* re.search(r"/(\d+)(?:\?|$)", href): group 1 of the leftmost match, None
\* when there is no match.
SearchVerId(href) ==
    LET Ends(i) == {j \in (i + 1)..Len(href) :
                       /\ DigitRun(href, i + 1, j)
                       /\ (j = Len(href) \/ href[j + 1] = "?")}
        starts == {i \in 1..Len(href) : href[i] = "/" /\ Ends(i) # {}}
    IN IF starts = {} THEN None
       ELSE LET i == CHOOSE i \in starts : \A k \in starts : i <= k
            IN SubSeq(href, i + 1, CHOOSE j \in Ends(i) : TRUE)

\* Whether \d{2}\.\d{2}\.\d{4} matches s at index i.
DateAt(s, i) ==
    /\ i + 9 <= Len(s)
    /\ \A k \in {0, 1, 3, 4, 6, 7, 8, 9} : s[i + k] \in Digit
    /\ s[i + 2] = "." /\ s[i + 5] = "."

\* re.search(r"(\d{2}\.\d{2}\.\d{4})", s): the leftmost match, None when
\* there is none.
SearchDate(s) ==
    LET at == {i \in 1..Len(s) : DateAt(s, i)}
    IN IF at = {} THEN None
       ELSE LET i == CHOOSE i \in at : \A k \in at : i <= k
            IN SubSeq(s, i, i + 9)

\* DateSource looking at the visible text only.
DateSource_text_only(link) == Strip(link.text)

\* source = text if the text holds a date, else the title attribute
DateSource(link) ==
    IF SearchDate(Strip(link.text)) # None THEN Strip(link.text) ELSE link.title

\* Whether the loop passes over a link (the three "continue"), and the
\* entry a link gives when it does not.
Skipped(link) ==
    \/ link.href = None \/ link.href = <<>>
    \/ SearchVerId(link.href) = None
    \/ SearchDate(DateSource(link)) = None
EntryOf(link) ==
    HistoryEntry(SearchVerId(link.href), SearchDate(DateSource(link)))

\* The links of a history container: href is None when the attribute is
\* missing, title is empty when it is.
D1 == <<"0", "2", ".", "0", "7", ".", "2", "0", "1", "0">>
D2 == <<"1", "2", ".", "1", "1", ".", "2", "0", "0", "9">>
Hrefs ==
    {None, <<>>, <<"#">>, <<"/", "D", "/", "1", "2">>, <<"/", "7", "?", "x">>,
     <<"/", "7", "x">>}
LinkTexts == {<<>>, <<" ">> \o D1 \o <<" ">>, <<"x">>}
LinkTitles == {<<>>, <<"C", " ">> \o D2, <<"0", "2", ".", "0", "7">>}
Links == [href : Hrefs, text : LinkTexts, title : LinkTitles]

notHistory == <<avars, hvars, nvars, fvars, cvars, svars, kvars>>

InitHistory ==
    /\ hpc = "links"
    /\ links = <<>>
    /\ history = <<>>
    /\ prev_ver = None
    /\ IdleArticle
    /\ IdleHtml
    /\ IdleNote
    /\ IdleRest

\* for link in history_div.find_all("a"): one turn of the loop
ReadLink ==
    /\ hpc = "links"
    /\ Len(links) < MaxLinks
    /\ \E link \in Links :
          /\ links' = Append(links, link)
          /\ history' = IF Skipped(link) THEN history
                        ELSE Append(history, EntryOf(link))
    /\ UNCHANGED <<hpc, prev_ver>>
    /\ UNCHANGED notHistory

\* The loop is over and the DocumentInfo is built.
BuildDocument ==
    /\ hpc = "links"
    /\ hpc' = "done"
    /\ prev_ver' = IF history # <<>> THEN history[1].ver_id ELSE None
    /\ UNCHANGED <<links, history>>
    /\ UNCHANGED notHistory

NextHistory ==
    \/ ReadLink
    \/ BuildDocument

SpecHistory == InitHistory /\ [][NextHistory]_vars

\* ------------------------------------------------------ _parse_note_details
\* A letter with a diacritic is one character, written with two signs:
\* "a(" is a-breve, "a^" a-circumflex, "i^" i-circumflex, "s," s-comma and
\* "t," t-comma.
Uppers ==
    <<"A", "B", "C", "D", "E", "F", "G", "H", "I", "J", "K", "L", "M", "N",
      "O", "P", "Q", "R", "S", "T", "U", "V", "W", "X", "Y", "Z",
      "A(", "A^", "I^", "S,", "T,">>
Lowers ==
    <<"a", "b", "c", "d", "e", "f", "g", "h", "i", "j", "k", "l", "m", "n",
      "o", "p", "q", "r", "s", "t", "u", "v", "w", "x", "y", "z",
      "a(", "a^", "i^", "s,", "t,">>

\* Fold keeping the case.
Fold_none(c) == c

\* re.IGNORECASE: a character and its lower-case form are the same.
Fold(c) ==
    IF \E k \in 1..Len(Uppers) : Uppers[k] = c
    THEN Lowers[CHOOSE k \in 1..Len(Uppers) : Uppers[k] = c]
    ELSE c

\* [a-zăâîșț] under re.IGNORECASE
MonthLetter(c) == \E k \in 1..Len(Lowers) : Lowers[k] = Fold(c)

\* Whether the literal lit is in s at index i, and the same without regard
\* to case.
LitAt(s, i, lit) ==
    /\ i >= 1
    /\ i + Len(lit) - 1 <= Len(s)
    /\ \A k \in 1..Len(lit) : s[i + k - 1] = lit[k]
LitAtCI(s, i, lit) ==
    /\ i >= 1
    /\ i + Len(lit) - 1 <= Len(s)
    /\ \A k \in 1..Len(lit) : Fold(s[i + k - 1]) = Fold(lit[k])

\* The index after the longest run, starting at i, of characters that
\* satisfy In (i itself when there is none).
AfterRun(s, i, In(_)) ==
    CHOOSE j \in i..(Len(s) + 1) :
        /\ \A k \in i..(j - 1) : In(s[k])
        /\ (j = Len(s) + 1 \/ ~In(s[j]))
IsSpace(c) == c \in Whitespace
IsDigit(c) == c \in Digit
NotQuote(c) == c # "\""

L_la ==
    <<"l", "a", " ">>
L_a_fost ==
    <<"a", " ", "f", "o", "s", "t">>
L_legea ==
    <<"L", "E", "G", "E", "A", " ", "n", "r", ".">>
L_monitorul ==
    <<"M", "O", "N", "I", "T", "O", "R", "U", "L", " ", "O", "F", "I", "C",
      "I", "A", "L", " ", "n", "r", ".">>
L_din ==
    <<"d", "i", "n">>
L_inlocuirea ==
    <<"i^", "n", "l", "o", "c", "u", "i", "r", "e", "a", " ", "s", "i",
      "n", "t", "a", "g", "m", "e", "i", " ", "\"">>
L_cu_sintagma ==
    <<"\"", " ", "c", "u", " ", "s", "i", "n", "t", "a", "g", "m", "a",
      " ", "\"">>

\* la (\d{2}[.-]\d{2}[.-]\d{4}) at index i
NoteDateAt(s, i) ==
    /\ LitAt(s, i, L_la)
    /\ i + 12 <= Len(s)
    /\ \A k \in {3, 4, 6, 7, 9, 10, 11, 12} : s[i + k] \in Digit
    /\ s[i + 5] \in {".", "-"}
    /\ s[i + 8] \in {".", "-"}

\* re.search(r"la (\d{2}[.-]\d{2}[.-]\d{4})", text): group 1, None without
\* a match.
SearchNoteDate(s) ==
    LET at == {i \in 1..Len(s) : NoteDateAt(s, i)}
    IN IF at = {} THEN None
       ELSE LET i == CHOOSE i \in at : \A k \in at : i <= k
            IN SubSeq(s, i + 3, i + 12)

\* The ends k of group 1 with which ,\s*(.*?)\s+a fost matches from the
\* comma at index i, the group starting at index g.
SubjectEnds(s, g) ==
    {k \in (g - 1)..Len(s) :
        /\ k + 1 <= Len(s)
        /\ IsSpace(s[k + 1])
        /\ LitAt(s, AfterRun(s, k + 1, IsSpace), L_a_fost)}
\* The starts of group 1 the greedy \s* tries, longest run first.
SubjectStart(s, i) ==
    LET r == AfterRun(s, i + 1, IsSpace)
        ok == {g \in (i + 1)..r : SubjectEnds(s, g) # {}}
    IN IF ok = {} THEN 0 ELSE CHOOSE g \in ok : \A h \in ok : h <= g

\* re.search(r",\s*(.*?)\s+a fost", text): group 1, None without a match.
SearchSubject(s) ==
    LET at == {i \in 1..Len(s) : s[i] = "," /\ SubjectStart(s, i) # 0}
    IN IF at = {} THEN None
       ELSE LET i == CHOOSE i \in at : \A k \in at : i <= k
                g == SubjectStart(s, i)
                k == CHOOSE k \in SubjectEnds(s, g) :
                         \A h \in SubjectEnds(s, g) : k <= h
            IN SubSeq(s, g, k)

\* <lit>\s*(\d+)\s+din\s+([0-9]{1,2} [a-zăâîșț]+ [0-9]{4}) at index i, under
\* re.IGNORECASE: the indices of the two groups, ok telling whether it
\* matches.
RefAt(s, i, lit) ==
    LET n1 == AfterRun(s, i + Len(lit), IsSpace)
        n2 == AfterRun(s, n1, IsDigit)
        d0 == AfterRun(s, n2, IsSpace)
        d1 == AfterRun(s, d0 + Len(L_din), IsSpace)
        d2 == AfterRun(s, d1, IsDigit)
        m2 == AfterRun(s, d2 + 1, MonthLetter)
    IN [ok |-> /\ LitAtCI(s, i, lit)
               /\ n2 > n1
               /\ d0 > n2
               /\ LitAtCI(s, d0, L_din)
               /\ d1 > d0 + Len(L_din)
               /\ d2 - d1 \in {1, 2}
               /\ LitAt(s, d2, <<" ">>)
               /\ m2 > d2 + 1
               /\ LitAt(s, m2, <<" ">>)
               /\ m2 + 4 <= Len(s)
               /\ \A k \in 1..4 : s[m2 + k] \in Digit,
        n1 |-> n1, n2 |-> n2, d1 |-> d1, d3 |-> m2 + 4]

\* re.search of that pattern: [number, date], None twice without a match.
SearchRef(s, lit) ==
    LET at == {i \in 1..Len(s) : LitAtCI(s, i, lit) /\ RefAt(s, i, lit).ok}
    IN IF at = {} THEN [number |-> None, date |-> None]
       ELSE LET r == RefAt(s, CHOOSE i \in at : \A k \in at : i <= k, lit)
            IN [number |-> SubSeq(s, r.n1, r.n2 - 1),
                date |-> SubSeq(s, r.d1, r.d3)]

\* înlocuirea sintagmei "([^"]+)" cu sintagma "([^"]+)" at index i, under
\* re.IGNORECASE.
ReplaceAt(s, i) ==
    LET x1 == i + Len(L_inlocuirea)
        x2 == AfterRun(s, x1, NotQuote)
        y1 == x2 + Len(L_cu_sintagma)
        y2 == AfterRun(s, y1, NotQuote)
    IN [ok |-> /\ LitAtCI(s, i, L_inlocuirea)
               /\ x2 > x1
               /\ LitAtCI(s, x2, L_cu_sintagma)
               /\ y2 > y1
               /\ y2 <= Len(s),
        x1 |-> x1, x2 |-> x2, y1 |-> y1, y2 |-> y2]

SearchReplace(s) ==
    LET at == {i \in 1..Len(s) : LitAtCI(s, i, L_inlocuirea) /\ ReplaceAt(s, i).ok}
    IN IF at = {} THEN [replaced |-> None, replacement |-> None]
       ELSE LET r == ReplaceAt(s, CHOOSE i \in at : \A k \in at : i <= k)
            IN [replaced |-> SubSeq(s, r.x1, r.x2 - 1),
                replacement |-> SubSeq(s, r.y1, r.y2 - 1)]

\* _parse_note_details looking for the subject whether or not there is a date.
_parse_note_details_subject_always(text) ==
    LET date == SearchNoteDate(text)
        law == SearchRef(text, L_legea)
        monitor == SearchRef(text, L_monitorul)
        rep == SearchReplace(text)
    IN [date |-> date,
        subject |-> SearchSubject(text),
        law_number |-> law.number,
        law_date |-> law.date,
        monitor_number |-> monitor.number,
        monitor_date |-> monitor.date,
        replaced |-> rep.replaced,
        replacement |-> rep.replacement]

_parse_note_details(text) ==
    LET date == SearchNoteDate(text)
        law == SearchRef(text, L_legea)
        monitor == SearchRef(text, L_monitorul)
        rep == SearchReplace(text)
    IN [date |-> date,
        subject |-> IF date # None THEN SearchSubject(text) ELSE None,
        law_number |-> law.number,
        law_date |-> law.date,
        monitor_number |-> monitor.number,
        monitor_date |-> monitor.date,
        replaced |-> rep.replaced,
        replacement |-> rep.replacement]

\* The parts a note is written with: the words of each part as they are in
\* the element, and the values the part states (None when the part is not
\* in the note).
Part(words, v1, v2) == [words |-> words, v1 |-> v1, v2 |-> v2]
NoPart == Part(<<>>, None, None)
P_date_dash ==
    Part(<<"(", "l", "a", " ", " ", "0", "1", "-", "0", "1", "-", "2", "0", "2", "0">>,
         <<"0", "1", "-", "0", "1", "-", "2", "0", "2", "0">>,
         None)
P_date_dot ==
    Part(<<"(", "l", "a", " ", "3", "1", ".", "1", "2", ".", "2", "0", "1", "9">>,
         <<"3", "1", ".", "1", "2", ".", "2", "0", "1", "9">>,
         None)
P_subject ==
    Part(<<",", " ", "A", "l", "i", "n", ".", " ", "(", "2", ")", " ", "a", "l", " ", "a", "r", "t", ".", " ", "7", " ", " ", "a", " ", "f", "o", "s", "t", " ", "m", "o", "d", "i", "f", "i", "c", "a", "t">>,
         <<"A", "l", "i", "n", ".", " ", "(", "2", ")", " ", "a", "l", " ", "a", "r", "t", ".", " ", "7">>,
         None)
P_law ==
    Part(<<"d", "e", " ", "L", "E", "G", "E", "A", " ", "n", "r", ".", " ", "6", "0", " ", "d", "i", "n", " ", "1", "0", " ", "a", "p", "r", "i", "l", "i", "e", " ", "2", "0", "1", "2", " ", ",">>,
         <<"6", "0">>,
         <<"1", "0", " ", "a", "p", "r", "i", "l", "i", "e", " ", "2", "0", "1", "2">>)
P_law_lower ==
    Part(<<"d", "e", " ", "L", "e", "g", "e", "a", " ", " ", "n", "r", ".", "7", " ", "d", "i", "n", " ", "1", " ", "M", "a", "i", " ", "2", "0", "1", "1">>,
         <<"7">>,
         <<"1", " ", "M", "a", "i", " ", "2", "0", "1", "1">>)
P_monitor ==
    Part(<<"i^", "n", " ", "M", "O", "N", "I", "T", "O", "R", "U", "L", " ", "O", "F", "I", "C", "I", "A", "L", " ", "n", "r", ".", " ", "2", "5", "5", " ", "d", "i", "n", " ", "1", "7", " ", "a", "p", "r", "i", "l", "i", "e", " ", "2", "0", "1", "2">>,
         <<"2", "5", "5">>,
         <<"1", "7", " ", "a", "p", "r", "i", "l", "i", "e", " ", "2", "0", "1", "2">>)
P_monitor_lower ==
    Part(<<"i^", "n", " ", "M", "o", "n", "i", "t", "o", "r", "u", "l", " ", "O", "f", "i", "c", "i", "a", "l", " ", "n", "r", ".", " ", "9", " ", "d", "i", "n", " ", "2", " ", "i", "u", "n", "i", "e", " ", "2", "0", "1", "3">>,
         <<"9">>,
         <<"2", " ", "i", "u", "n", "i", "e", " ", "2", "0", "1", "3">>)
P_replace ==
    Part(<<"p", "r", "i", "n", " ", "i^", "n", "l", "o", "c", "u", "i", "r", "e", "a", " ", "s", "i", "n", "t", "a", "g", "m", "e", "i", " ", "\"", "s", "t", "a", "r", "e", " ", "c", "i", "v", "i", "l", "a(", "\"", " ", "c", "u", " ", "s", "i", "n", "t", "a", "g", "m", "a", " ", "\"", "e", "v", "i", "d", "e", "n", "t,", "a(", "\"", " ", ".", ")">>,
         <<"s", "t", "a", "r", "e", " ", "c", "i", "v", "i", "l", "a(">>,
         <<"e", "v", "i", "d", "e", "n", "t,", "a(">>)
P_replace_upper ==
    Part(<<"p", "r", "i", "n", " ", "I^", "N", "L", "O", "C", "U", "I", "R", "E", "A", " ", "S", "I", "N", "T", "A", "G", "M", "E", "I", " ", "\"", "a", "\"", " ", "c", "u", " ", "s", "i", "n", "t", "a", "g", "m", "a", " ", "\"", "b", " ", "t,", "\"", ")">>,
         <<"a">>,
         <<"b", " ", "t,">>)
P_plain ==
    Part(<<"T", "e", "x", "t", " ", " ", "s", "i", "m", "p", "l", "u", " ", ".">>,
         None,
         None)

NoteParts ==
    [date : {NoPart, P_date_dash, P_date_dot},
     subject : {NoPart, P_subject},
     law : {NoPart, P_law, P_law_lower},
     monitor : {NoPart, P_monitor, P_monitor_lower},
     repl : {NoPart, P_replace, P_replace_upper},
     plain : {NoPart, P_plain}]

\* The text of the note element made of the parts.
NoteWords(n) ==
    n.plain.words \o <<" ">> \o n.date.words \o n.subject.words \o <<" ">>
        \o n.law.words \o <<" ">> \o n.monitor.words \o <<" ">> \o n.repl.words

notNote == <<avars, hvars, mvars, fvars, cvars, svars, kvars>>

InitNote ==
    /\ npc = "tag"
    /\ note_in \in NoteParts
    /\ note_text = None
    /\ details = None
    /\ IdleArticle
    /\ IdleHtml
    /\ IdleHistory
    /\ IdleRest

\* _note_from_tag: text = _normalize_whitespace(tag.get_text(" ", strip=True))
NormalizeNote ==
    /\ npc = "tag"
    /\ npc' = "text"
    /\ note_text' = _normalize_whitespace(NoteWords(note_in))
    /\ UNCHANGED <<note_in, details>>
    /\ UNCHANGED notNote

\* _note_from_tag: details = _parse_note_details(text)
ParseNoteDetails ==
    /\ npc = "text"
    /\ npc' = "parsed"
    /\ details' = _parse_note_details(note_text)
    /\ UNCHANGED <<note_in, note_text>>
    /\ UNCHANGED notNote

NextNote ==
    \/ NormalizeNote
    \/ ParseNoteDetails

SpecNote == InitNote /\ [][NextNote]_vars

\* ------------------------------------------------------------ fetch_document

VerIds == {"123", "456"}
CacheDirs == {"d1", "d2"}

\* The pages of the server, each as the article elements it holds: the page
\* of the test has none, an element is without or with an S_ART_BDY.
Pages == {<<>>, <<"S_ART">>, <<"S_ART", "S_ART_BDY">>}

\* What the caller of parse_html gets: the exception, or the document with
\* the version id given and the number of its articles.
Raised == [raised |-> TRUE, ver_id |-> "", articles |-> 0]
Returned(ver_id, n) == [raised |-> FALSE, ver_id |-> ver_id, articles |-> n]

\* parse_html(html, ver_id): the loop over the articles raises at the first
\* article that has a body (ArticleRaises), and returns otherwise (Return).
ParseHtml(html, ver_id) ==
    LET bodied == SelectSeq(html, LAMBDA a : a = "S_ART_BDY")
    IN IF bodied # <<>> /\ EnsureSectionArgs # EnsureSectionParams
       THEN Raised
       ELSE Returned(ver_id, Len(bodied))

\* One call that is over.
Fetch(d, v, had, req, failed, wrote, html, out) ==
    [dir |-> d, ver_id |-> v, had_file |-> had, requests |-> req,
     failed |-> failed, wrote |-> wrote, parsed |-> html, out |-> out]

notFetch == <<avars, hvars, mvars, nvars, cvars, svars, kvars>>

InitFetch ==
    /\ files = [d \in CacheDirs |-> [v \in VerIds |-> None]]
    /\ site \in [VerIds -> Pages]
    /\ fetches = <<>>
    /\ IdleArticle
    /\ IdleHtml
    /\ IdleHistory
    /\ IdleNote
    /\ IdleCache
    /\ IdleSection
    /\ IdleMarkers

\* cache_file.exists(): the file is read and parsed, nothing is requested.
FetchCached ==
    /\ Len(fetches) < MaxFetches
    /\ \E d \in CacheDirs, v \in VerIds :
          /\ files[d][v] # None
          /\ fetches' = Append(fetches,
                 Fetch(d, v, TRUE, 0, FALSE, FALSE, files[d][v],
                       ParseHtml(files[d][v], v)))
    /\ UNCHANGED <<files, site>>
    /\ UNCHANGED notFetch

\* No cache file: the page is requested, written to the file and parsed.
FetchNetwork ==
    /\ Len(fetches) < MaxFetches
    /\ \E d \in CacheDirs, v \in VerIds :
          /\ files[d][v] = None
          /\ files' = [files EXCEPT ![d][v] = site[v]]
          /\ fetches' = Append(fetches,
                 Fetch(d, v, FALSE, 1, FALSE, TRUE, site[v],
                       ParseHtml(site[v], v)))
    /\ UNCHANGED site
    /\ UNCHANGED notFetch

\* A failing call that leaves an empty cache file behind.
FetchFails_writes ==
    /\ Len(fetches) < MaxFetches
    /\ \E d \in CacheDirs, v \in VerIds :
          /\ files[d][v] = None
          /\ files' = [files EXCEPT ![d][v] = <<>>]
          /\ fetches' = Append(fetches,
                 Fetch(d, v, FALSE, 1, TRUE, FALSE, None, Raised))
    /\ UNCHANGED site
    /\ UNCHANGED notFetch

\* No cache file, and requests.get or raise_for_status raises: nothing is
\* written and the exception leaves fetch_document.
FetchFails ==
    /\ Len(fetches) < MaxFetches
    /\ \E d \in CacheDirs, v \in VerIds :
          /\ files[d][v] = None
          /\ fetches' = Append(fetches,
                 Fetch(d, v, FALSE, 1, TRUE, FALSE, None, Raised))
    /\ UNCHANGED <<files, site>>
    /\ UNCHANGED notFetch

NextFetch ==
    \/ FetchCached
    \/ FetchNetwork
    \/ FetchFails

SpecFetch == InitFetch /\ [][NextFetch]_vars

\* -------------------------------------------------------- load_document_info

_TTL_SECONDS == 15 * 60

Paths == {"1.yaml", "2.json"}

\* The documents a file may hold, each known by its ver_id.
Contents == {"1", "2"}

\* The seconds that pass between two calls: a little less and a little more
\* than half the time-to-live, so that entries get exactly as old as it.
TimeSteps == {449, 451}

\* A DocumentInfo instance: id tells the instances apart (Python's "is").
DocumentInfo(n, ver_id) == [id |-> n, ver_id |-> ver_id]
NoInfo == DocumentInfo(0, "")

\* A cache entry (timestamp, info), and _CACHE.get(path) without an entry.
CacheEntry(t, info) == [present |-> TRUE, at |-> t, info |-> info]
NoEntry == [present |-> FALSE, at |-> 0, info |-> NoInfo]

\* The entry is valid until it is exactly as old as the time-to-live.
Fresh_inclusive(cached, now) ==
    cached.present /\ now - cached.at <= _TTL_SECONDS

\* if cached and now - cached[0] < _TTL_SECONDS
Fresh(cached, now) ==
    cached.present /\ now - cached.at < _TTL_SECONDS

Call(path, now, before, file, read, info) ==
    [path |-> path, now |-> now, before |-> before, file |-> file,
     read |-> read, info |-> info]
NoCall == Call("", 0, [p \in Paths |-> NoEntry], "", FALSE, NoInfo)

notCache == <<avars, hvars, mvars, nvars, fvars, svars, kvars>>

InitCache ==
    /\ clock = 0
    /\ _CACHE = [p \in Paths |-> NoEntry]
    /\ disk \in [Paths -> Contents]
    /\ instances = 0
    /\ last = NoCall
    /\ IdleArticle
    /\ IdleHtml
    /\ IdleHistory
    /\ IdleNote
    /\ IdleFetch
    /\ IdleSection
    /\ IdleMarkers

\* load_document_info(path) with a valid entry: the cached instance is
\* returned.
LoadCached ==
    /\ \E path \in Paths :
          /\ Fresh(_CACHE[path], clock)
          /\ last' = Call(path, clock, _CACHE, disk[path], FALSE,
                          _CACHE[path].info)
    /\ UNCHANGED <<clock, _CACHE, disk, instances>>
    /\ UNCHANGED notCache

\* load_document_info(path) without a valid entry: the file is read, a new
\* instance is built and stored with the time of the call.
LoadFile ==
    /\ \E path \in Paths :
          /\ ~Fresh(_CACHE[path], clock)
          /\ instances' = instances + 1
          /\ LET info == DocumentInfo(instances', disk[path])
             IN /\ _CACHE' = [_CACHE EXCEPT ![path] = CacheEntry(clock, info)]
                /\ last' = Call(path, clock, _CACHE, disk[path], TRUE, info)
    /\ UNCHANGED <<clock, disk>>
    /\ UNCHANGED notCache

\* Time passes.
Tick ==
    /\ \E d \in TimeSteps :
          /\ clock + d <= MaxClock
          /\ clock' = clock + d
    /\ UNCHANGED <<_CACHE, disk, instances, last>>
    /\ UNCHANGED notCache

\* A file is written anew with another document.
Rewrite ==
    /\ \E path \in Paths, c \in Contents :
          /\ disk[path] # c
          /\ disk' = [disk EXCEPT ![path] = c]
    /\ UNCHANGED <<clock, _CACHE, instances, last>>
    /\ UNCHANGED notCache

NextCache ==
    \/ LoadCached
    \/ LoadFile
    \/ Tick
    \/ Rewrite

SpecCache == InitCache /\ [][NextCache]_vars

\* ---------------------------------------- _ensure_section, _ensure_subsection

\* The ids of the S_SEC_BDY and S_SSEC_BDY elements of the document, and the
\* text of the title element before each.
SecBodies == {"s1", "s2", "s3", "s4"}
SubBodies == {"u1", "u2"}
SectionTitle(id) ==
    CASE id = "s1" -> <<"1">>
      [] id = "s2" -> <<"1", ".", "1">>
      [] id = "s3" -> <<"2", ".", "1", ".">>
      [] id = "s4" -> <<"S", "e", "c", "t,", "i", "u", "n", "e", "a", " ", "1">>
      [] id = "u1" -> <<"1", ".", "2">>
      [] id = "u2" -> <<"1", ".", "1", ".", "1">>

\* An article element: the section and subsection bodies that enclose it, and
\* whether parse_html found it a chapter, a title and a book.
ArtPlace(sec, sub, chapter, title, book) ==
    [sec |-> sec, sub |-> sub, chapter |-> chapter, title |-> title,
     book |-> book]
Places ==
    {ArtPlace(Absent, Absent, TRUE, FALSE, TRUE),
     ArtPlace("s1", Absent, TRUE, TRUE, TRUE),
     ArtPlace("s2", Absent, TRUE, TRUE, TRUE),
     ArtPlace("s1", "u1", TRUE, TRUE, TRUE),
     ArtPlace("s3", Absent, FALSE, FALSE, TRUE),
     ArtPlace("s3", "u2", FALSE, FALSE, TRUE),
     ArtPlace("s4", Absent, FALSE, FALSE, FALSE),
     ArtPlace(Absent, "u1", TRUE, FALSE, FALSE)}

\* re.fullmatch(r"(\d+(?:\.\d+)*)\.?", title): group 1, None without a match.
IsDotted(n) ==
    /\ n # <<>>
    /\ \A k \in 1..Len(n) : n[k] \in Digit \cup {"."}
    /\ n[1] \in Digit
    /\ n[Len(n)] \in Digit
    /\ \A k \in 1..(Len(n) - 1) : ~(n[k] = "." /\ n[k + 1] = ".")
NumberOf(title) ==
    LET n == IF title # <<>> /\ title[Len(title)] = "."
             THEN SubSeq(title, 1, Len(title) - 1)
             ELSE title
    IN IF IsDotted(n) THEN n ELSE None

\* ".".join(number.split(".")[:-1])
ParentKey(number) ==
    LET dots == {k \in 1..Len(number) : number[k] = "."}
    IN IF dots = {} THEN <<>>
       ELSE SubSeq(number, 1, (CHOOSE k \in dots : \A j \in dots : j <= k) - 1)

\* section_titles[number] = section, and section_titles.get(key)
PutTitle(ttls, number, id) ==
    {e \in ttls : e.key # number} \cup {[key |-> number, id |-> id]}
GetTitle(ttls, key) ==
    IF \E e \in ttls : e.key = key
    THEN (CHOOSE e \in ttls : e.key = key).id
    ELSE Absent

\* The registries and lists after a call, the section it returns, and the
\* numeric parent it attached the section to (Absent when it did not).
Placed(secs, ttls, subs, hld, section, parent) ==
    [sections |-> secs, section_titles |-> ttls, subsections |-> subs,
     held |-> hld, section |-> section, parent |-> parent]

\* utils.py:574-587: the section goes to the first of chapter, title and book
\* that is there and does not hold it yet.
AttachToContainer(hld, tag, id) ==
    IF tag.chapter /\ NotIn(hld.chapter, id)
    THEN [hld EXCEPT !.chapter = Append(@, id)]
    ELSE IF tag.title /\ NotIn(hld.title, id)
    THEN [hld EXCEPT !.title = Append(@, id)]
    ELSE IF tag.book /\ NotIn(hld.book, id)
    THEN [hld EXCEPT !.book = Append(@, id)]
    ELSE hld

_ensure_section(tag, secs, ttls, subs, hld) ==
    LET id == tag.sec
        new == id \notin secs
        number == IF new THEN NumberOf(SectionTitle(id)) ELSE None
        ttls1 == IF number # None THEN PutTitle(ttls, number, id) ELSE ttls
        parent == IF number # None THEN GetTitle(ttls1, ParentKey(number))
                  ELSE Absent
    IN IF id = Absent
       THEN Placed(secs, ttls, subs, hld, Absent, Absent)
       ELSE IF parent # Absent /\ NotIn(subs[parent], id)
       THEN Placed(secs \cup {id}, ttls1,
                   [subs EXCEPT ![parent] = Append(@, id)], hld, id, parent)
       ELSE Placed(secs \cup {id}, ttls1, subs,
                   AttachToContainer(hld, tag, id), id, Absent)

_ensure_subsection(tag, secs, ttls, subs, hld, section) ==
    LET id == tag.sub
        new == id \notin secs
        number == IF new THEN NumberOf(SectionTitle(id)) ELSE None
        ttls1 == IF number # None THEN PutTitle(ttls, number, id) ELSE ttls
        parent == IF number # None THEN GetTitle(ttls1, ParentKey(number))
                  ELSE Absent
    IN IF section = Absent \/ id = Absent
       THEN Placed(secs, ttls, subs, hld, Absent, Absent)
       ELSE IF parent # Absent /\ NotIn(subs[parent], id)
       THEN Placed(secs \cup {id}, ttls1,
                   [subs EXCEPT ![parent] = Append(@, id)], hld, id, parent)
       ELSE Placed(secs \cup {id}, ttls1,
                   IF NotIn(subs[section], id)
                   THEN [subs EXCEPT ![section] = Append(@, id)]
                   ELSE subs,
                   hld, id, Absent)

notSection == <<avars, hvars, mvars, nvars, fvars, cvars, kvars>>

InitSection ==
    /\ sections = {}
    /\ section_titles = {}
    /\ subsections = [id \in SecBodies \cup SubBodies |-> <<>>]
    /\ held = [chapter |-> <<>>, title |-> <<>>, book |-> <<>>]
    /\ seen = <<>>
    /\ IdleArticle
    /\ IdleHtml
    /\ IdleHistory
    /\ IdleNote
    /\ IdleFetch
    /\ IdleCache
    /\ IdleMarkers

\* _ensure_section is called for the next article element.
EnsureSection ==
    /\ Len(seen) < MaxPlaced
    /\ IF seen = <<>> THEN TRUE ELSE seen[Len(seen)].done
    /\ \E tag \in Places :
          LET r == _ensure_section(tag, sections, section_titles,
                                   subsections, held)
          IN /\ sections' = r.sections
             /\ section_titles' = r.section_titles
             /\ subsections' = r.subsections
             /\ held' = r.held
             /\ seen' = Append(seen,
                    [tag |-> tag, section |-> r.section,
                     sec_parent |-> r.parent, subsection |-> Absent,
                     sub_parent |-> Absent, done |-> FALSE])
    /\ UNCHANGED notSection

\* _ensure_subsection is called for the same element, with the section just
\* returned.
EnsureSubsection ==
    /\ seen # <<>>
    /\ ~seen[Len(seen)].done
    /\ LET cur == seen[Len(seen)]
           r == _ensure_subsection(cur.tag, sections, section_titles,
                                   subsections, held, cur.section)
       IN /\ sections' = r.sections
          /\ section_titles' = r.section_titles
          /\ subsections' = r.subsections
          /\ held' = r.held
          /\ seen' = [seen EXCEPT ![Len(seen)] =
                         [cur EXCEPT !.subsection = r.section,
                                     !.sub_parent = r.parent,
                                     !.done = TRUE]]
    /\ UNCHANGED notSection

NextSection ==
    \/ EnsureSection
    \/ EnsureSubsection

SpecSection == InitSection /\ [][NextSection]_vars

\* ----------------------------------- title and description of a new container

\* The elements of one level (chapter: S_CAP_TTL, S_CAP_DEN, S_CAP_BDY; the
\* book, title and section levels have the same shape) inside two enclosing
\* bodies that follow each other; parent is the enclosing body of the element.
MarkerClasses == {"S_CAP_TTL", "S_CAP_DEN", "S_CAP_BDY"}
Enclosing == {"t1", "t2"}
MarkerElements == [cls : MarkerClasses, parent : Enclosing]

\* The text of the element at position i: no two elements have the same.
TextAt(i) == <<ToString(i)>>

\* tag.find_previous("span", class_=cls): the position of the nearest element
\* of the class before position k in document order, 0 without one.
find_previous(pg, k, cls) ==
    LET before == {i \in 1..(k - 1) : pg[i].cls = cls}
    IN IF before = {} THEN 0
       ELSE CHOOSE i \in before : \A j \in before : j <= i

\* find_previous looking among the siblings of the element only.
find_previous_sibling(pg, k, cls) ==
    LET before == {i \in 1..(k - 1) :
                      pg[i].cls = cls /\ pg[i].parent = pg[k].parent}
    IN IF before = {} THEN 0
       ELSE CHOOSE i \in before : \A j \in before : j <= i

\* utils.py:482-496: the Chapter made for the body at position k.
NewContainer(pg, k) ==
    LET title_tag == find_previous(pg, k, "S_CAP_TTL")
        desc_tag == find_previous(pg, k, "S_CAP_DEN")
    IN [body |-> k,
        title |-> IF title_tag # 0 THEN TextAt(title_tag) ELSE <<>>,
        description |-> IF desc_tag # 0 THEN TextAt(desc_tag) ELSE None]

notMarkers == <<avars, hvars, mvars, nvars, fvars, cvars, svars>>

\* The elements of the first enclosing body come before those of the second.
InitMarkers ==
    /\ page \in UNION {[1..n -> MarkerElements] : n \in 1..MaxElements}
    /\ \A i, j \in 1..Len(page) :
          i < j /\ page[i].parent = "t2" => page[j].parent = "t2"
    /\ built = <<>>
    /\ IdleArticle
    /\ IdleHtml
    /\ IdleHistory
    /\ IdleNote
    /\ IdleFetch
    /\ IdleCache
    /\ IdleSection

\* _ensure_chapter for an article inside a body that has no Chapter yet.
EnsureContainer ==
    /\ \E k \in 1..Len(page) :
          /\ page[k].cls = "S_CAP_BDY"
          /\ \A i \in 1..Len(built) : built[i].body # k
          /\ built' = Append(built, NewContainer(page, k))
    /\ UNCHANGED page
    /\ UNCHANGED notMarkers

\* _ensure_chapter for an article inside a body whose Chapter is registered.
EnsureRegistered ==
    /\ \E k \in 1..Len(page) :
          /\ page[k].cls = "S_CAP_BDY"
          /\ \E i \in 1..Len(built) : built[i].body = k
    /\ UNCHANGED <<page, built>>
    /\ UNCHANGED notMarkers

NextMarkers ==
    \/ EnsureContainer
    \/ EnsureRegistered

SpecMarkers == InitMarkers /\ [][NextMarkers]_vars

\* ================================================================== claims
\* Helpers of the claims about one article body.

\* The lettered item a step of the scan has just read, and whether the step
\* read one.
LetteredStep ==
    /\ apc = "scan"
    /\ idx' = idx + 1
    /\ art_tag'.children[idx'].cls = "S_LIT"
Item == RemoveShort(art_tag'.children[idx'])

\* Length of a leading "(" digits ")" of s, 0 when s does not start with one.
NumPrefix(s) ==
    IF \E k \in 3..Len(s) :
           s[1] = "(" /\ s[k] = ")" /\ \A j \in 2..(k - 1) : s[j] \in Digit
    THEN CHOOSE k \in 3..Len(s) :
           s[1] = "(" /\ s[k] = ")" /\ \A j \in 2..(k - 1) : s[j] \in Digit
    ELSE 0
\* Length of a leading label of s, "(" digits ")" or one lower-case letter
\* and ")", 0 when s does not start with one.
LabelPrefix(s) ==
    IF NumPrefix(s) > 0 THEN NumPrefix(s)
    ELSE IF Len(s) >= 2 /\ s[1] \in Lower /\ s[2] = ")" THEN 2 ELSE 0
PureNumeric(l) == l # None /\ Len(l) > 0 /\ NumPrefix(l) = Len(l)

\* The label sub-element's text and the normalized body text of an item.
ItemExplicit(tag) == IF tag.ttl # None THEN Strip(tag.ttl) ELSE <<>>
ItemText(tag) ==
    IF tag.bdy
    THEN _normalize_whitespace(get_text(NodesStrings(extract(tag.nodes, {"S_PAR"}))))
    ELSE _normalize_whitespace(get_text(TagStrings(tag)))
\* The explicit or recovered label of an item.
ItemLabel(tag) ==
    IF ItemExplicit(tag) # <<>> THEN ItemExplicit(tag)
    ELSE SubSeq(ItemText(tag), 1, LabelPrefix(ItemText(tag)))
\* The text of an item once a recovered label is taken off.
ItemRest(tag) ==
    IF ItemExplicit(tag) # <<>> THEN ItemText(tag)
    ELSE LStrip(SubSeq(ItemText(tag), LabelPrefix(ItemText(tag)) + 1,
                       Len(ItemText(tag))))

\* What a step did with the item.
BecameParagraph ==
    /\ Len(paragraphs') = Len(paragraphs) + 1
    /\ SubSeq(paragraphs', 1, Len(paragraphs)) = paragraphs
    /\ paragraphs'[Len(paragraphs')].par_id = Item.id
    /\ paragraphs'[Len(paragraphs')].subparagraphs = <<>>
    /\ current_par' = Len(paragraphs')
BecameSubParagraph ==
    /\ current_par # 0
    /\ current_par' = current_par
    /\ Len(paragraphs') = Len(paragraphs)
    /\ \E sub \in {paragraphs'[current_par].subparagraphs[
                       Len(paragraphs'[current_par].subparagraphs)]} :
          /\ sub.sub_id = Item.id
          /\ paragraphs' = [paragraphs EXCEPT
                               ![current_par].subparagraphs = Append(@, sub)]
\* The record the item produced.
Produced ==
    IF Len(paragraphs') = Len(paragraphs) + 1
    THEN paragraphs'[Len(paragraphs')]
    ELSE paragraphs'[current_par].subparagraphs[
             Len(paragraphs'[current_par].subparagraphs)]

\* C4 (as stated): a lettered item met directly in an article body starts a
\* new Paragraph if and only if its label has the pure form (<digits>) and
\* there is no current paragraph or the current paragraph carries a numeric
\* label; otherwise it becomes a SubParagraph of the current paragraph when
\* there is one, and a label-less Paragraph when there is none.
C4_AsStated ==
    [][LetteredStep =>
        IF /\ PureNumeric(ItemLabel(Item))
           /\ (current_par = 0 \/ PureNumeric(paragraphs[current_par].label))
        THEN BecameParagraph /\ Produced.label = ItemLabel(Item)
        ELSE IF current_par # 0 THEN BecameSubParagraph
        ELSE BecameParagraph /\ Produced.label = None]_vars

\* C4 (amended): a lettered item met directly in an article body starts a
\* new Paragraph if and only if its label has the pure form (<digits>) and
\* there is no current paragraph or the current paragraph has a label that
\* is not null (numeric or not, even empty); otherwise it becomes a
\* SubParagraph of the current paragraph when there is one, and a label-less
\* Paragraph when there is none.
C4_DecisionRule ==
    [][LetteredStep =>
        IF /\ PureNumeric(ItemLabel(Item))
           /\ (current_par = 0 \/ paragraphs[current_par].label # None)
        THEN BecameParagraph /\ Produced.label = ItemLabel(Item)
        ELSE IF current_par # 0 THEN BecameSubParagraph
        ELSE BecameParagraph /\ Produced.label = None]_vars

\* C4 witness: after a paragraph whose label is empty but not null, a
\* lettered item with a (<digits>) label started a new paragraph, and the
\* lettered item after it became a sub-paragraph of that new paragraph.
C4_Witness ==
    /\ apc = "scan"
    /\ idx = 3
    /\ Len(paragraphs) = 2
    /\ paragraphs[1].label = <<>>
    /\ art_tag.children[2].cls = "S_LIT"
    /\ paragraphs[2].par_id = <<2>>
    /\ PureNumeric(paragraphs[2].label)
    /\ Len(paragraphs[2].subparagraphs) = 1
    /\ paragraphs[2].subparagraphs[1].sub_id = <<3>>

\* Document order of two id attributes: a child comes before its own nodes,
\* and both before the next child.
Before(a, b) ==
    \/ a[1] < b[1]
    \/ a[1] = b[1] /\ Len(a) < Len(b)
    \/ a[1] = b[1] /\ Len(a) = 2 /\ Len(b) = 2 /\ a[2] < b[2]

InOrder(pars) ==
    /\ \A i, j \in 1..Len(pars) : i < j => Before(pars[i].par_id, pars[j].par_id)
    /\ \A p \in 1..Len(pars) :
          /\ \A i \in 1..Len(pars[p].subparagraphs) :
                /\ Before(pars[p].par_id, pars[p].subparagraphs[i].sub_id)
                /\ p < Len(pars) =>
                      Before(pars[p].subparagraphs[i].sub_id, pars[p + 1].par_id)
          /\ \A i, j \in 1..Len(pars[p].subparagraphs) :
                i < j => Before(pars[p].subparagraphs[i].sub_id,
                                pars[p].subparagraphs[j].sub_id)

\* C5: the paragraphs are in the order of the source elements that produced
\* them, and the sub-paragraphs of each paragraph are in document order: its
\* nested list items first, then the lettered siblings that follow it, all
\* before the next paragraph.
C5_OrderPreserved ==
    /\ InOrder(paragraphs)
    /\ apc = "done" => article.paragraphs = paragraphs

\* C5 witness: an article was returned with two paragraphs, the first of
\* which has nested list items followed by a lettered sibling.
C5_Witness ==
    /\ apc = "done"
    /\ Len(article.paragraphs) = 2
    /\ Len(article.paragraphs[1].subparagraphs) = 3
    /\ Len(article.paragraphs[1].subparagraphs[1].sub_id) = 2
    /\ Len(article.paragraphs[1].subparagraphs[3].sub_id) = 1

\* C6 (as stated): a lettered item with an empty or missing label
\* sub-element whose normalized text starts with (<digits>) or <letter>)
\* gives a record with that prefix as label and the text without the prefix
\* and the whitespace after it; without such a prefix the label stays empty
\* and the text is unchanged; with a label sub-element that is not empty the
\* text is never stripped.
C6_AsStated ==
    [][LetteredStep =>
        IF ItemExplicit(Item) # <<>> THEN Produced.text = ItemText(Item)
        ELSE IF LabelPrefix(ItemText(Item)) > 0
        THEN /\ Produced.label = SubSeq(ItemText(Item), 1, LabelPrefix(ItemText(Item)))
             /\ Produced.text = ItemRest(Item)
        ELSE /\ Produced.label \in {<<>>, None}
             /\ Produced.text = ItemText(Item)]_vars

\* The item is the stray one: no current paragraph and no (<digits>) label.
Stray == current_par = 0 /\ ~PureNumeric(ItemLabel(Item))

\* C6 (amended): as stated, except that the record of a stray item (no
\* current paragraph, prefix not of the form (<digits>)) is a Paragraph whose
\* label is null: its text still has the prefix removed.
C6_LabelTextSplit ==
    [][LetteredStep =>
        IF ItemExplicit(Item) # <<>> THEN Produced.text = ItemText(Item)
        ELSE IF LabelPrefix(ItemText(Item)) > 0
        THEN /\ Produced.label =
                    IF Stray THEN None
                    ELSE SubSeq(ItemText(Item), 1, LabelPrefix(ItemText(Item)))
             /\ Produced.text = ItemRest(Item)
        ELSE /\ Produced.label \in {<<>>, None}
             /\ Produced.text = ItemText(Item)]_vars

\* C6 witness: a stray item "b) y" became a label-less paragraph with text
\* "y", and the same item after it became a sub-paragraph "b)" / "y".
C6_Witness ==
    /\ idx = 2
    /\ art_tag.children[1].cls = "S_LIT" /\ art_tag.children[1].ttl = <<>>
    /\ art_tag.children[2] = [art_tag.children[1] EXCEPT
                                 !.id = <<2>>,
                                 !.nodes = [j \in 1..Len(@) |-> [@[j] EXCEPT !.id = <<2, j>>]]]
    /\ Len(paragraphs) = 1
    /\ paragraphs[1].label = None /\ paragraphs[1].text = <<"y">>
    /\ paragraphs[1].subparagraphs =
           <<SubParagraph(<<2>>, <<"b", ")">>, <<"y">>)>>

\* The text an article is made of, written out with a space after every
\* label and every text.
RECURSIVE SubsFlat(_)
SubsFlat(subs) ==
    IF subs = <<>> THEN <<>>
    ELSE Head(subs).label \o <<" ">> \o Head(subs).text \o <<" ">>
             \o SubsFlat(Tail(subs))
RECURSIVE ParsFlat(_)
ParsFlat(pars) ==
    IF pars = <<>> THEN <<>>
    ELSE (IF Head(pars).label = None THEN <<>> ELSE Head(pars).label) \o <<" ">>
             \o Head(pars).text \o <<" ">>
             \o SubsFlat(Head(pars).subparagraphs) \o ParsFlat(Tail(pars))

RECURSIVE CountIn(_, _)
CountIn(nts, id) ==
    IF nts = <<>> THEN 0
    ELSE (IF Head(nts).note_id = id THEN 1 ELSE 0) + CountIn(Tail(nts), id)
RECURSIVE CountInPars(_, _)
CountInPars(pars, id) ==
    IF pars = <<>> THEN 0
    ELSE CountIn(Head(pars).notes, id) + CountInPars(Tail(pars), id)

\* C10: every Note constructed while an article is parsed is in exactly one
\* notes list of the returned article, the article's or one paragraph's, and
\* the paragraphs and sub-paragraphs each come from one element.
C10_NoteOwnership ==
    apc = "done" =>
        /\ \A id \in made :
              CountIn(article.notes, id) + CountInPars(article.paragraphs, id) = 1
        /\ \A i, j \in 1..Len(article.paragraphs) :
              i # j => article.paragraphs[i].par_id # article.paragraphs[j].par_id

\* Helpers of the claims about parse_html.

\* parse_html is over: it has returned or an exception has left it.
Ended == pc # "loop"
\* The ids of the articles of the document that have a body, in order.
RECURSIVE BodiedFrom(_)
BodiedFrom(i) ==
    IF i > Len(doc) THEN <<>>
    ELSE (IF doc[i].body THEN <<ArtId(i)>> ELSE <<>>) \o BodiedFrom(i + 1)
\* How many times x is listed in lst.
Times(lst, x) == Cardinality({i \in 1..Len(lst) : lst[i] = x})
\* How many times a child list of a container of the result lists x.
RECURSIVE Sum(_, _)
Sum(f, n) == IF n = 0 THEN 0 ELSE f[n] + Sum(f, n - 1)
ListedChapter(r, c) ==
    Sum([i \in 1..Len(r.books) |-> Times(r.books[i].chapters, c)], Len(r.books))
        + Sum([i \in 1..Len(r.titles) |-> Times(r.titles[i].chapters, c)],
              Len(r.titles))
ListedTitle(r, t) ==
    Sum([i \in 1..Len(r.books) |-> Times(r.books[i].titles, t)], Len(r.books))
ListedArticle(r, a) ==
    Sum([i \in 1..Len(r.books) |-> Times(r.books[i].articles, a)], Len(r.books))
        + Sum([i \in 1..Len(r.titles) |-> Times(r.titles[i].articles, a)],
              Len(r.titles))
        + Sum([i \in 1..Len(r.chapters) |-> Times(r.chapters[i].articles, a)],
              Len(r.chapters))

\* C9: parse_html never raises: whatever containers enclose the articles,
\* the call completes and returns a result in which every article that has a
\* body is produced.
C9_NeverRaises ==
    /\ pc # "raised"
    /\ pc = "returned" => result.articles = BodiedFrom(1)

\* C1: when articles with a body share a chapter body element, the result of
\* parse_html has exactly one Chapter value for that id, listed exactly once
\* in the child list of its parent.
C1_OneChapterValue ==
    Ended =>
        \A c \in ChapterIds \ {Absent} :
            (\E i \in 1..Len(doc) : doc[i].body /\ doc[i].chapter = c) =>
                /\ result # None
                /\ Cardinality({i \in 1..Len(result.chapters) :
                                   result.chapters[i].chapter_id = c}) = 1
                /\ ListedChapter(result, c) = 1

\* C2: in the result of parse_html every title and chapter made for an
\* article is listed in the child list of exactly one container.
C2_StrictTree ==
    Ended =>
        \A i \in 1..Len(doc) :
            doc[i].body /\ (doc[i].title # Absent \/ doc[i].chapter # Absent) =>
                /\ result # None
                /\ doc[i].title # Absent => ListedTitle(result, doc[i].title) = 1
                /\ doc[i].chapter # Absent =>
                      ListedChapter(result, doc[i].chapter) = 1

\* C3: in the result of parse_html the id of every article that has a body
\* and an enclosing container is in the articles list of exactly one
\* container, and the id of an article no container encloses is in none.
C3_DeepestContainer ==
    Ended =>
        \A i \in 1..Len(doc) :
            doc[i].body =>
                /\ result # None
                /\ ListedArticle(result, ArtId(i)) =
                       IF /\ doc[i].book = Absent /\ doc[i].title = Absent
                          /\ doc[i].chapter = Absent /\ doc[i].section = Absent
                       THEN 0 ELSE 1

\* C8: an article without a body is left out of the result, and the
\* articles with a body before and after it are all produced, in order.
C8_MissingBody ==
    Ended =>
        /\ result # None
        /\ result.articles = BodiedFrom(1)
        /\ \A i \in 1..Len(doc) :
              ~doc[i].body => ListedArticle(result, ArtId(i)) = 0

\* Helpers of the claims about one paragraph-kind element.

\* A step of the scan has just read a paragraph-kind child (S_PAR or S_ALN);
\* the child as the scan saw it, and the paragraph made from it.
ParagraphStep ==
    /\ apc = "scan"
    /\ idx' = idx + 1
    /\ art_tag'.children[idx'].cls \in {"S_PAR", "S_ALN"}
ParEl == RemoveShort(art_tag'.children[idx'])
NewPar == paragraphs'[Len(paragraphs')]

\* The ids of the note elements nested inside a child, at any depth.
NestedNoteIds(tag) ==
    {tag.nodes[j].id : j \in {j \in 1..Len(tag.nodes) : tag.nodes[j].t = "S_PAR"}}
        \cup UNION {{tag.nodes[j].inner[k].id :
                        k \in {k \in 1..Len(tag.nodes[j].inner) :
                                  tag.nodes[j].inner[k].t = "S_PAR"}} :
                    j \in 1..Len(tag.nodes)}

\* Whether a text holds one of the given characters.
HasChar(text, chars) == \E i \in 1..Len(text) : text[i] \in chars

\* C11: for every paragraph-kind element, each note element nested inside it
\* is parsed into a Note of the new paragraph's notes, and the note's text is
\* neither in the paragraph's text nor in the text of its sub-paragraphs.
C11_NestedNotes ==
    [][ParagraphStep =>
        /\ {NewPar.notes[i].note_id : i \in 1..Len(NewPar.notes)}
               = NestedNoteIds(ParEl)
        /\ NestedNoteIds(ParEl) \subseteq made'
        /\ ~HasChar(NewPar.text, {"n"})
        /\ \A i \in 1..Len(NewPar.subparagraphs) :
              ~HasChar(NewPar.subparagraphs[i].text, {"n"})]_vars

\* The nested list items of a paragraph-kind child, in source order, and the
\* normalized text of the body sub-element of one of them.
ItemNodes(tag) == find_all(tag.nodes, ListItemClasses)
ItemBodyText(n) == _normalize_whitespace(get_text(<<n.s>> \o InnerStrings(n)))

TextsOfNotes(nts) == {nts[i].text : i \in 1..Len(nts)}
TextsOfPars(pars) ==
    UNION {{pars[p].text}
               \cup {pars[p].subparagraphs[i].text :
                        i \in 1..Len(pars[p].subparagraphs)}
               \cup TextsOfNotes(pars[p].notes) : p \in 1..Len(pars)}

\* Whether a child of the body holds an ellipsis placeholder, directly or
\* inside a nested list item.
HasShort(tag) ==
    \E j \in 1..Len(tag.nodes) :
        \/ tag.nodes[j].t \in ShortClasses
        \/ \E k \in 1..Len(tag.nodes[j].inner) :
               tag.nodes[j].inner[k].t \in ShortClasses

\* C13: no text of an ellipsis placeholder (S_LIT_SHORT or S_LIN_SHORT),
\* wherever it is nested in the article body, is in a paragraph text, a
\* sub-paragraph text, a note text or the full text of the article.
C13_EllipsisRemoval ==
    /\ \A t \in TextsOfPars(paragraphs) \cup TextsOfNotes(notes) :
          ~HasChar(t, {"."})
    /\ apc = "done" =>
          /\ article.paragraphs = paragraphs
          /\ article.notes = notes
          /\ ~HasChar(article.full_text, {"."})

\* C13 witness: an article was returned from a body with a placeholder
\* directly inside a lettered item and one inside a nested list item, both
\* of which gave text.
C13_Witness ==
    /\ apc = "done"
    /\ \E i, j \in 1..Len(art_tag.children) :
          /\ i # j
          /\ art_tag.children[i].cls = "S_LIT" /\ HasShort(art_tag.children[i])
          /\ art_tag.children[j].cls = "S_PAR" /\ HasShort(art_tag.children[j])
          /\ \E p \in 1..Len(article.paragraphs) :
                /\ article.paragraphs[p].par_id = <<j>>
                /\ Len(article.paragraphs[p].subparagraphs) >= 1
    /\ Len(article.full_text) > 3

\* C14: the articles list of the result of parse_html is flat and complete:
\* it has exactly one entry for every article element that has a body, in
\* document order, whatever containers enclose the article.
C14_FlatArticles ==
    Ended =>
        /\ result # None
        /\ Len(result.articles) = Len(BodiedFrom(1))
        /\ \A i \in 1..Len(doc) :
              doc[i].body => Times(result.articles, ArtId(i)) = 1
        /\ \A i, j \in 1..Len(result.articles) :
              i < j => result.articles[i][2] < result.articles[j][2]

\* The calls that are over: those the threads have left behind, and the
\* current call of each thread when it has returned or raised.
Finished ==
    {calls[i] : i \in 1..Len(calls)}
        \cup (IF pc # "loop"
              THEN {Outcome(Frame(pc, doc, books, titles, chapters,
                                  parsed_articles, result))}
              ELSE {})
        \cup (IF other.pc \in {"returned", "raised"} THEN {Outcome(other)} ELSE {})

HasDate(s) == \E i \in 1..Len(s) : DateAt(s, i)
HasHref(link) == link.href # None /\ link.href # <<>>
\* The href ends with "/" digits, or has "/" digits before a "?".
HasVerId(link) ==
    \E i, j \in 1..Len(link.href) :
        /\ link.href[i] = "/"
        /\ DigitRun(link.href, i + 1, j)
        /\ (j = Len(link.href) \/ link.href[j + 1] = "?")
\* A leftmost date of the visible text or, failing that, of the title.
IsDateOf(d, link) ==
    LET src == IF HasDate(link.text) THEN link.text ELSE link.title
    IN \E i \in 1..Len(src) :
          /\ DateAt(src, i)
          /\ d = SubSeq(src, i, i + 9)
          /\ \A k \in 1..(i - 1) : ~DateAt(src, k)

\* The indices of the links the claim counts, in order.
KeepAsStated(link) ==
    HasHref(link) /\ (HasDate(link.text) \/ HasDate(link.title))
KeepAmended(link) ==
    HasHref(link) /\ HasVerId(link) /\ (HasDate(link.text) \/ HasDate(link.title))
KeptAsStated ==
    SelectSeq([i \in 1..Len(links) |-> i], LAMBDA i : KeepAsStated(links[i]))
KeptAmended ==
    SelectSeq([i \in 1..Len(links) |-> i], LAMBDA i : KeepAmended(links[i]))

\* C16 (as stated): the history has, in source order, exactly one entry for
\* each link that has a non-empty href and a DD.MM.YYYY date in its visible
\* text or, failing that, its title attribute; prev_ver is the version id of
\* the first entry, null when the history is empty.
C16_AsStated ==
    /\ Len(history) = Len(KeptAsStated)
    /\ hpc = "done" =>
          prev_ver = IF history = <<>> THEN None ELSE history[1].ver_id

\* C16 (amended): the history has, in source order, exactly one entry for
\* each link whose href is not empty and holds a version id ("/" and digits
\* at its end or before a "?") and that has a DD.MM.YYYY date in its visible
\* text or, failing that, its title attribute; every other link is skipped;
\* prev_ver is the version id of the first entry, null when the history is
\* empty.
C16_HistoryParsing ==
    /\ Len(history) = Len(KeptAmended)
    /\ \A k \in 1..Len(history) :
          LET link == links[KeptAmended[k]]
          IN /\ IsDateOf(history[k].date, link)
             /\ \E i \in 1..Len(link.href) :
                   /\ link.href[i] = "/"
                   /\ history[k].ver_id = SubSeq(link.href, i + 1,
                                                 i + Len(history[k].ver_id))
                   /\ DigitRun(link.href, i + 1, i + Len(history[k].ver_id))
    /\ hpc = "done" =>
          prev_ver = IF history = <<>> THEN None ELSE history[1].ver_id

\* C16 witness: a link with a version id and its date in the title only gave
\* the first entry, a link without version id was skipped, and prev_ver is
\* the version id of the first entry.
C16_Witness ==
    /\ hpc = "done"
    /\ Len(links) = 2
    /\ links[1].href = <<"#">> /\ HasDate(links[1].text)
    /\ ~HasDate(links[2].text) /\ HasDate(links[2].title)
    /\ history = <<HistoryEntry(<<"1", "2">>, D2)>>
    /\ prev_ver = <<"1", "2">>

\* C17: the fields read from a note are exactly the values its text states:
\* the date after "la", the subject between the first comma and "a fost"
\* when there is a date, the number and date of the law and of the gazette
\* (whatever the case of their words), and the replaced and replacement
\* phrases; a field whose pattern is not in the text is null, so that a note
\* with none of the patterns has its eight fields null.
C17_NoteFields ==
    npc = "parsed" =>
        /\ details.date = note_in.date.v1
        /\ note_in.subject = NoPart => details.subject = None
        /\ note_in.subject # NoPart /\ note_in.date # NoPart =>
              details.subject = note_in.subject.v1
        /\ details.law_number = note_in.law.v1
        /\ details.law_date = note_in.law.v2
        /\ details.monitor_number = note_in.monitor.v1
        /\ details.monitor_date = note_in.monitor.v2
        /\ details.replaced = note_in.repl.v1
        /\ details.replacement = note_in.repl.v2

\* C17 witness: a note with the five patterns, the law in lower case and the
\* replacement announcement in upper case, was parsed and its eight fields
\* are set.
C17_Witness ==
    /\ npc = "parsed"
    /\ note_in.date = P_date_dot
    /\ note_in.subject = P_subject
    /\ note_in.law = P_law_lower
    /\ note_in.monitor = P_monitor
    /\ note_in.repl = P_replace_upper
    /\ \A f \in {"date", "subject", "law_number", "law_date", "monitor_number",
                 "monitor_date", "replaced", "replacement"} :
          details[f] # None
    /\ details.law_date = <<"1", " ", "M", "a", "i", " ", "2", "0", "1", "1">>

\* C18: of the calls of fetch_document the server answers, one that finds no
\* cache file makes exactly one request and writes the file; one that comes
\* after the file was written for the same version id and directory makes no
\* request and parses the text of the file; and each of them returns a
\* document that has the version id asked for.
C18_FetchOnce ==
    \A i \in 1..Len(fetches) :
        LET f == fetches[i]
            wrote == \E j \in 1..(i - 1) : /\ fetches[j].dir = f.dir
                                           /\ fetches[j].ver_id = f.ver_id
                                           /\ fetches[j].wrote
        IN ~f.failed =>
              /\ ~f.had_file => f.requests = 1 /\ f.wrote
              /\ wrote => /\ f.had_file
                          /\ f.requests = 0
                          /\ f.parsed = site[f.ver_id]
              /\ ~f.out.raised
              /\ f.out.ver_id = f.ver_id

\* The entry of the path of the last call, as it was when the call was made.
Cached == last.before[last.path]

\* C19: a call of load_document_info made less than 15 minutes after the
\* entry of its path was stored returns the instance of the entry, reads no
\* file and leaves the entry and its timestamp as they were; a call made 15
\* minutes or more after it reads the file, returns a new instance and
\* stores it with the time of the call; the entries of the other paths stay
\* as they were.
C19_TimedCache ==
    last.path # "" =>
        /\ Cached.present /\ last.now - Cached.at < 15 * 60 =>
              /\ ~last.read
              /\ last.info = Cached.info
              /\ _CACHE[last.path] = Cached
        /\ Cached.present /\ last.now - Cached.at >= 15 * 60 =>
              /\ last.read
              /\ last.info.id # Cached.info.id
              /\ last.info.ver_id = last.file
              /\ _CACHE[last.path] = CacheEntry(last.now, last.info)
        /\ \A q \in Paths \ {last.path} : _CACHE[q] = last.before[q]

\* C19 witness: a call made exactly 15 minutes after the entry of its path
\* was stored has read the file, which had been written anew, while the other
\* path has an entry too.
C19_Witness ==
    /\ last.path # ""
    /\ Cached.present
    /\ last.now - Cached.at = 15 * 60
    /\ last.read
    /\ last.info.ver_id # Cached.info.ver_id
    /\ \E q \in Paths \ {last.path} : _CACHE[q].present

\* The sections whose subsections list holds the section id.
ParentsOf(id) ==
    {q \in SecBodies \cup SubBodies : ~NotIn(subsections[q], id)}

\* C20: a section or subsection that was attached to its numeric parent is in
\* the subsections of that parent only, once, and in the sections list of no
\* chapter, title or book, whatever articles are placed after it.
C20_NumericParentOnly ==
    \A i \in 1..Len(seen) :
        /\ seen[i].sec_parent # Absent =>
              /\ ParentsOf(seen[i].section) = {seen[i].sec_parent}
              /\ Times(subsections[seen[i].sec_parent], seen[i].section) = 1
              /\ NotIn(held.chapter, seen[i].section)
              /\ NotIn(held.title, seen[i].section)
              /\ NotIn(held.book, seen[i].section)
        /\ seen[i].sub_parent # Absent =>
              /\ ParentsOf(seen[i].subsection) = {seen[i].sub_parent}
              /\ Times(subsections[seen[i].sub_parent], seen[i].subsection) = 1

\* The articles of the document that have a body and lie in a section that no
\* chapter encloses.
Orphans ==
    {i \in 1..Len(doc) :
        doc[i].body /\ doc[i].section # Absent /\ doc[i].chapter = Absent}

ReachableTitles(r) ==
    {t \in TitleIds : \E b \in 1..Len(r.books) : ~NotIn(r.books[b].titles, t)}
ReachableChapters(r) ==
    {c \in ChapterIds \cup {DEFAULT_CHAPTER_ID} :
        \/ \E b \in 1..Len(r.books) : ~NotIn(r.books[b].chapters, c)
        \/ \E t \in 1..Len(r.titles) :
              /\ r.titles[t].title_id \in ReachableTitles(r)
              /\ ~NotIn(r.titles[t].chapters, c)}

\* C22: parse_html gives a result for every document, also when an article
\* lies in a title without a book, a chapter without a book or title, or a
\* section without a chapter; every title and chapter made during the parse
\* can be reached from the books of the result, and every article that has a
\* body in a container is listed by a container that can be reached.
C22_Reachable ==
    Ended =>
        /\ result # None
        /\ \A t \in 1..Len(result.titles) :
              result.titles[t].title_id \in ReachableTitles(result)
        /\ \A c \in 1..Len(result.chapters) :
              result.chapters[c].chapter_id \in ReachableChapters(result)
        /\ \A i \in 1..Len(doc) :
              /\ doc[i].body
              /\ \/ doc[i].book # Absent \/ doc[i].title # Absent
                 \/ doc[i].chapter # Absent \/ doc[i].section # Absent
              => ListedArticle(result, ArtId(i)) >= 1

\* C23: after every step of the scan of an article body the current
\* paragraph is the last one of the paragraph list, and there is none exactly
\* when the list is empty; a lettered item that becomes a sub-paragraph is
\* appended to the last paragraph of the list.
C23_CurrentIsLast ==
    [][/\ current_par' = Len(paragraphs')
       /\ LetteredStep /\ Len(paragraphs') = Len(paragraphs) =>
             /\ BecameSubParagraph
             /\ current_par = Len(paragraphs)]_vars

\* C23 witness: two paragraphs were made and a lettered item read after them
\* is the only sub-paragraph, held by the second.
C23_Witness ==
    /\ apc = "scan"
    /\ idx = 3
    /\ art_tag.children[3].cls = "S_LIT"
    /\ Len(paragraphs) = 2
    /\ current_par = 2
    /\ paragraphs[1].subparagraphs = <<>>
    /\ Len(paragraphs[2].subparagraphs) = 1
    /\ paragraphs[2].subparagraphs[1].sub_id = <<3>>

NoteStep ==
    /\ apc = "scan"
    /\ idx' = idx + 1
    /\ art_tag'.children[idx'].cls = "S_NTA"

\* C25: scanning an article-level note element appends exactly one Note, made
\* from that element, to the notes of the article and leaves the paragraph
\* list and the current paragraph as they were; the text of the note and of
\* its title sub-element is in no paragraph text, no sub-paragraph text and
\* not in the full text of the article.
C25_ArticleNoteFrame ==
    [][/\ NoteStep =>
             /\ notes' = Append(notes, notes'[Len(notes')])
             /\ notes'[Len(notes')].note_id = art_tag'.children[idx'].id
             /\ paragraphs' = paragraphs
             /\ current_par' = current_par
       /\ \A t \in TextsOfPars(paragraphs') : ~HasChar(t, {"m", "N"})
       /\ apc' = "done" => ~HasChar(article'.full_text, {"m", "N"})]_vars

\* C25 witness: an article was returned whose body held a paragraph, then a
\* note element, then a lettered item that became a sub-paragraph of the
\* paragraph before the note.
C25_Witness ==
    /\ apc = "done"
    /\ Len(art_tag.children) = 3
    /\ art_tag.children[1].cls = "S_ALN"
    /\ art_tag.children[2].cls = "S_NTA"
    /\ art_tag.children[3].cls = "S_LIT"
    /\ Len(article.notes) = 1
    /\ article.notes[1].note_id = <<2>>
    /\ article.notes[1].text = <<"m">>
    /\ Len(article.paragraphs) = 1
    /\ Len(article.paragraphs[1].subparagraphs) = 1
    /\ article.paragraphs[1].subparagraphs[1].sub_id = <<3>>

\* The registries of parse_html as a result would hold them.
Registries == [books |-> books, titles |-> titles, chapters |-> chapters]

\* C26: an article without a body leaves the registries of books, titles and
\* chapters and the article list as they were, its id is in no container's
\* articles list, and the result for a document in which no article has a
\* body holds no container.
C26_DroppedArticleFrame ==
    [][/\ pc = "loop" /\ Len(doc') = Len(doc) + 1 /\ ~doc'[Len(doc')].body =>
             /\ books' = books
             /\ titles' = titles
             /\ chapters' = chapters
             /\ parsed_articles' = parsed_articles
       /\ \A i \in 1..Len(doc') :
             ~doc'[i].body => ListedArticle(Registries', ArtId(i)) = 0
       /\ pc' = "returned" /\ (\A i \in 1..Len(doc') : ~doc'[i].body) =>
             /\ result'.books = <<>>
             /\ result'.titles = <<>>
             /\ result'.chapters = <<>>
             /\ result'.articles = <<>>]_vars

\* C26 witness: parse_html returned for a document whose articles, in a
\* chapter of a title of a book, all lack a body, and the result holds no
\* container.
C26_Witness ==
    /\ pc = "returned"
    /\ Len(doc) = 2
    /\ \A i \in 1..2 : /\ ~doc[i].body
                       /\ doc[i].book = "b1"
                       /\ doc[i].title = "t1"
                       /\ doc[i].chapter = "c1"
    /\ result.books = <<>>
    /\ result.chapters = <<>>

\* C27: the title and the description of a new container are the texts of
\* the nearest title and description markers among the preceding siblings of
\* its body; without such a sibling the title is empty and the description
\* null.
C27_SiblingMarkers ==
    \A i \in 1..Len(built) :
        LET k == built[i].body
            t == find_previous_sibling(page, k, "S_CAP_TTL")
            d == find_previous_sibling(page, k, "S_CAP_DEN")
        IN /\ built[i].title = IF t # 0 THEN TextAt(t) ELSE <<>>
           /\ built[i].description = IF d # 0 THEN TextAt(d) ELSE None

\* How many times the sections lists of the books and titles of r list s.
ListedSection(r, s) ==
    Sum([i \in 1..Len(r.books) |-> Times(r.books[i].sections, s)], Len(r.books))
        + Sum([i \in 1..Len(r.titles) |-> Times(r.titles[i].sections, s)],
              Len(r.titles))

\* C28: for every article with a body in a section that no chapter encloses,
\* the result of parse_html has the placeholder chapter, which lists the
\* section exactly once, and no title or book lists the section directly.
C28_OrphanSection ==
    Ended =>
        \A i \in Orphans :
            /\ result # None
            /\ ChapterAt(result.chapters, DEFAULT_CHAPTER_ID) # 0
            /\ Times(result.chapters[ChapterAt(result.chapters,
                                               DEFAULT_CHAPTER_ID)].sections,
                     doc[i].section) = 1
            /\ ListedSection(result, doc[i].section) = 0

\* C29: of the fields read from a note only subject depends on another one:
\* it is set exactly when the note has a date and a subject clause; date, the
\* law pair, the gazette pair and the replacement pair are each null exactly
\* when the note lacks their own clause, whatever the other clauses are, and
\* the two fields of a pair are null together.
C29_FieldDependence ==
    npc = "parsed" =>
        /\ details.subject # None => details.date # None
        /\ details.subject # None <=>
              (note_in.date # NoPart /\ note_in.subject # NoPart)
        /\ details.date = None <=> note_in.date = NoPart
        /\ details.law_number = None <=> note_in.law = NoPart
        /\ details.law_number = None <=> details.law_date = None
        /\ details.monitor_number = None <=> note_in.monitor = NoPart
        /\ details.monitor_number = None <=> details.monitor_date = None
        /\ details.replaced = None <=> note_in.repl = NoPart
        /\ details.replaced = None <=> details.replacement = None

\* C29 witness: a note with a subject clause and a law but no date, no
\* gazette and no replacement was parsed: only the law pair is set.
C29_Witness ==
    /\ npc = "parsed"
    /\ note_in.date = NoPart
    /\ note_in.subject = P_subject
    /\ note_in.law = P_law
    /\ note_in.monitor = NoPart
    /\ note_in.repl = NoPart
    /\ details.date = None
    /\ details.subject = None
    /\ details.law_number = <<"6", "0">>
    /\ details.law_date # None
    /\ details.monitor_number = None
    /\ details.replaced = None

\* C30: a call of fetch_document whose request fails changes no cache file,
\* so that a call for a version id and directory whose earlier calls all
\* failed finds no file and requests the page again; and a cache file that
\* exists is left with the same text by every later call.
C30_FailedWritesNothing ==
    [][/\ \A d \in CacheDirs, v \in VerIds :
             files[d][v] # None => files'[d][v] = files[d][v]
       /\ fetches'[Len(fetches')].failed => files' = files
       /\ \A i \in 1..Len(fetches') :
             LET f == fetches'[i]
                 wrote == \E j \in 1..(i - 1) :
                              /\ fetches'[j].dir = f.dir
                              /\ fetches'[j].ver_id = f.ver_id
                              /\ fetches'[j].wrote
             IN ~wrote => ~f.had_file /\ f.requests = 1]_vars

\* C30 witness: the request for a version id failed, the next call for it
\* requested again and wrote the file, and a third call read the same file.
C30_Witness ==
    /\ Len(fetches) = 3
    /\ \A i \in 1..3 : fetches[i].dir = "d1" /\ fetches[i].ver_id = "123"
    /\ fetches[1].failed /\ ~fetches[1].wrote
    /\ ~fetches[2].had_file /\ fetches[2].requests = 1 /\ fetches[2].wrote
    /\ fetches[3].had_file /\ fetches[3].requests = 0
    /\ fetches[3].parsed = fetches[2].parsed
    /\ files["d1"]["123"] = site["123"]
    /\ files["d1"]["456"] = None

====
